---- MODULE Spec2Model ----
(***************************************************************************)
(* Model of the Instagram export scanner: the Normalizer, Dedupe/Sort, the *)
(* Entry Extractor, the Structured-Data Parser, the Markup Parser          *)
(* (src/lib/instagramExport.ts, src/lib/instagramExportHtml.ts), and the   *)
(* Aggregator (handleFiles) and the Diff Engine (notFollowingBack) of      *)
(* src/App.tsx.                                                            *)
(*                                                                         *)
(* A JavaScript string is a sequence of one-character strings, so that     *)
(* trim, toLowerCase, the regular expressions and localeCompare are        *)
(* computed character by character.                                        *)
(***************************************************************************)
EXTENDS Integers, Sequences, FiniteSets, TLC

VARIABLES
  followers,   \* App state `followers`: string[] | null
  following,   \* App state `following`: string[] | null
  warnings,    \* App state `warnings`: string[]
  error,       \* App state `error`: string | null
  calls,       \* the handleFiles invocations suspended at `await file.text()`
  started,     \* number of handleFiles invocations started so far
  last,        \* outcome of the handleFiles invocation that returned last
  outcome,     \* per category, how its most recent finished load ended
  locale,      \* the host's default locale, which localeCompare compares in
  arg,         \* input of the pure function under study
  ret,         \* its result
  pc           \* "app", or "call" / "done" around a pure function

vars == <<followers, following, warnings, error, calls, started, last,
          outcome, locale, arg, ret, pc>>

(***************************************************************************)
(* Characters.  A string is a sequence of UTF-16 code units, each written  *)
(* as a one-character string; a code unit that cannot be written so is    *)
(* written by its name, "U+2028".  The strings of the model are made of    *)
(* the characters of Alphabet.                                             *)
(***************************************************************************)
LowerSeq == <<"a","b","c","d","e","f","g","h","i","j","k","l","m",
              "n","o","p","q","r","s","t","u","v","w","x","y","z">>
UpperSeq == <<"A","B","C","D","E","F","G","H","I","J","K","L","M",
              "N","O","P","Q","R","S","T","U","V","W","X","Y","Z">>
DigitSeq == <<"0","1","2","3","4","5","6","7","8","9">>

Range(s) == {s[i] : i \in 1..Len(s)}

Lowers == Range(LowerSeq)
Uppers == Range(UpperSeq)
Digits == Range(DigitSeq)

VT == ""          \* U+000B, line tabulation
NBSP == " "        \* U+00A0, no-break space
OGHAM == " "       \* U+1680, ogham space mark
ZWNBSP == "﻿"      \* U+FEFF, zero width no-break space
LS == "U+2028"   \* line separator
PS == "U+2029"   \* paragraph separator
NNBSP == "U+202F"
MMSP == "U+205F"
IDSP == "U+3000"   \* ideographic space
GRAVE == "U+0300"  \* combining grave accent
ACUTE == "U+0301"  \* combining acute accent
DOT_ABOVE == "U+0307"  \* combining dot above
I_DOT == "U+0130"  \* Latin capital letter I with dot above
BACKTICK == "U+0060"   \* grave accent, the ASCII character

\* U+2000 .. U+200A, the spaces of fixed width
QuadSpaces ==
  {"U+2000", "U+2001", "U+2002", "U+2003", "U+2004", "U+2005", "U+2006",
   "U+2007", "U+2008", "U+2009", "U+200A"}

\* WhiteSpace and LineTerminator of ECMAScript: \s of the regular expressions,
\* and the characters String.prototype.trim removes
SpaceChars ==
  {"\t", "\n", VT, "\f", "\r", " ", NBSP, OGHAM, LS, PS, NNBSP, MMSP, IDSP,
   ZWNBSP} \cup QuadSpaces

IsSpace(c) == c \in SpaceChars

\* the character class [a-zA-Z0-9._]
IsUserChar(c) == c \in Lowers \cup Uppers \cup Digits \cup {".", "_"}

\* the letters outside ASCII: upper case and the lower case each maps to
OtherUpperSeq == <<"À", "É", "Α", "Σ", "ẞ">>
OtherLowerSeq == <<"à", "é", "α", "σ", "ß">>

Punctuation ==
  {"_", "-", ",", ";", ":", "!", "?", ".", "'", "\"", "(", ")", "[", "]", "{",
   "}", "@", "*", "/", "\\", "&", "#", "%", BACKTICK, "^", "+", "<", "=", ">", "|",
   "~", "$"}

Alphabet ==
  SpaceChars \cup Punctuation \cup Digits \cup Lowers \cup Uppers
  \cup Range(OtherUpperSeq) \cup Range(OtherLowerSeq)
  \cup {"ς", I_DOT, GRAVE, ACUTE, DOT_ABOVE}

PositionIn(order, c) == CHOOSE i \in 1..Len(order) : order[i] = c

\* String.prototype.toLowerCase on a character whose lower case is one character
\* whatever surrounds it
ToLowerChar(c) ==
  IF c \in Uppers THEN LowerSeq[PositionIn(UpperSeq, c)]
  ELSE IF c \in Range(OtherUpperSeq) THEN OtherLowerSeq[PositionIn(OtherUpperSeq, c)]
  ELSE c

\* the properties Cased and Case_Ignorable of Unicode
IsCased(c) ==
  c \in Lowers \cup Uppers \cup Range(OtherUpperSeq) \cup Range(OtherLowerSeq)
        \cup {"ς", I_DOT}

IsCaseIgnorable(c) ==
  c \in {"'", ".", ":", "^", BACKTICK, ZWNBSP, GRAVE, ACUTE, DOT_ABOVE}

\* the condition Final_Sigma: a cased letter precedes position i and none follows
\* it, the characters that are ignored for case skipped on both sides
FinalSigma(s, i) ==
  /\ \E j \in 1..(i - 1) :
       IsCased(s[j]) /\ \A k \in (j + 1)..(i - 1) : IsCaseIgnorable(s[k])
  /\ ~\E j \in (i + 1)..Len(s) :
        IsCased(s[j]) /\ \A k \in (i + 1)..(j - 1) : IsCaseIgnorable(s[k])

\* the lower case of the character at position i of s
LowerAt(s, i) ==
  IF s[i] = "Σ" THEN (IF FinalSigma(s, i) THEN <<"ς">> ELSE <<"σ">>)
  ELSE IF s[i] = I_DOT THEN <<"i", DOT_ABOVE>>
  ELSE <<ToLowerChar(s[i])>>

RECURSIVE LowerFrom(_, _)
LowerFrom(s, i) ==
  IF i > Len(s) THEN <<>> ELSE LowerAt(s, i) \o LowerFrom(s, i + 1)

\* String.prototype.toLowerCase
toLowerCase(s) == LowerFrom(s, 1)

\* String.prototype.trim: what lies between the first and the last character
\* that is not a space
NonSpaces(s) == {p \in 1..Len(s) : ~IsSpace(s[p])}

Between(s, ps) ==
  IF ps = {} THEN <<>>
  ELSE SubSeq(s, CHOOSE p \in ps : \A q \in ps : p <= q,
                 CHOOSE p \in ps : \A q \in ps : p >= q)

trim(s) == Between(s, NonSpaces(s))

\* s.startsWith(lit, p - 1), positions counted from 1
HasPrefixAt(s, p, lit) ==
  /\ p >= 1
  /\ p + Len(lit) - 1 <= Len(s)
  /\ \A k \in 1..Len(lit) : s[p + k - 1] = lit[k]

startsWith(s, lit) == HasPrefixAt(s, 1, lit)
endsWith(s, lit) == HasPrefixAt(s, Len(s) - Len(lit) + 1, lit)
includes(s, lit) == \E p \in 1..Len(s) : HasPrefixAt(s, p, lit)

(***************************************************************************)
(* String.prototype.localeCompare.  The code passes no locale, so the      *)
(* comparison is that of the host's default locale, made by the host's     *)
(* collator (ICU with the rules of CLDR).  Locales names the host locales  *)
(* the model has: en-US has the root order, which many locales share       *)
(* (de-DE, es-ES, fr-FR, it-IT, pt-BR, ru-RU, sv-SE, ...); each other one  *)
(* has rules of its own for the strings of Alphabet (hr-HR those of bs-BA  *)
(* and sr-Latn-RS too, fil-PH those of ceb-PH, cs-CZ those of sk-SK,       *)
(* nb-NO those of fo-FO).  A host whose locale is not in Locales, or whose *)
(* collator has other rules for one that is, is outside the model.  A      *)
(* string is compared as the sequence of its collation elements            *)
(* <<primary, secondary, case, tertiary>>: first the primary weights (the  *)
(* letters without accent or case), then the secondary (accents), then the *)
(* tertiary (case and variants).  The weights are the ranks of those of    *)
(* the collator.                                                           *)
(***************************************************************************)
Locales ==
  {"en-US", "az-AZ", "blo-BJ", "br-FR", "cs-CZ", "cy-GB", "da-DK", "dsb-DE",
   "ee-GH", "el-GR", "et-EE", "fil-PH", "fr-CA", "fy-NL", "ha-NG", "haw-US",
   "hr-HR", "hsb-DE", "hu-HU", "ig-NG", "is-IS", "ja-JP", "kl-GL", "ku-TR",
   "lt-LT", "lv-LV",
   "mt-MT", "nb-NO", "om-ET", "pl-PL", "se-NO", "sl-SI", "smn-FI", "sq-AL",
   "th-TH", "tk-TM", "to-TO", "tr-TR", "uz-UZ", "vi-VN", "wo-SN", "yo-NG",
   "zh-CN"}

\* the root order of the primary weights: white space, punctuation, symbols,
\* digits, letters
CollationOrder ==
  <<"\t", "\n", VT, "\f", "\r", LS, PS, " ",
    "_", "-", ",", ";", ":", "!", "?", ".", "'", "\"",
    "(", ")", "[", "]", "{", "}", "@", "*", "/", "\\", "&", "#", "%",
    BACKTICK, "^", "+", "<", "=", ">", "|", "~", "$">>
  \o DigitSeq \o LowerSeq \o <<"α", "σ">>

\* the character of CollationOrder a character has the root primary weight of
BaseOf(c) ==
  CASE c \in Uppers -> ToLowerChar(c)
    [] c \in {"à", "À"} -> "a"
    [] c \in {"é", "É"} -> "e"
    [] c = "Α" -> "α"
    [] c \in {"Σ", "ς"} -> "σ"
    [] c \in {"ß", "ẞ"} -> "s"
    [] c = I_DOT -> "i"
    [] c \in {NBSP, OGHAM, NNBSP, MMSP, IDSP} \cup QuadSpaces -> " "
    [] OTHER -> c

\* the primary weight of a character of CollationOrder, and the k-th weight a
\* locale puts between it and the next one
Primary(c) == 100 * PositionIn(CollationOrder, c)
After(c, k) == Primary(c) + k

\* the root secondary weights: none, then the accents.  The locales use 1, 2, 4,
\* 5 and 9 for weights of their own around them.
Secondary(mark) ==
  CASE mark = "none" -> 3
    [] mark = "ß" -> 6
    [] mark = ACUTE -> 7
    [] mark = GRAVE -> 8
    [] mark = DOT_ABOVE -> 10

\* the case of a character: 0 lower case or none, 2 upper case; 1 is the mixed
\* case of a contraction (Ch)
CaseOf(c) == IF c \in Uppers \cup Range(OtherUpperSeq) \cup {I_DOT} THEN 2 ELSE 0

\* the root tertiary weight of a character: its rank among the variants of
\* characters (the case is one of them)
Tertiary(c) ==
  CASE c = IDSP -> 7
    [] c \in {OGHAM, MMSP} \cup (QuadSpaces \ {"U+2007"}) -> 9
    [] c \in {NBSP, NNBSP, "U+2007"} -> 15
    [] c = "W" -> 12
    [] c \in Uppers \cup {"À", "É", I_DOT} -> 10
    [] c = "Σ" -> 11
    [] c = "Α" -> 14
    [] c = "ς" -> 16
    [] OTHER -> 1

CE(p, s, c, t) == <<p, s, c, t>>

\* the collation element of an accent, and that of a character without one
MarkCE(mark) == CE(0, Secondary(mark), 0, 1)
LetterCE(c) == CE(Primary(BaseOf(c)), Secondary("none"), CaseOf(c), Tertiary(c))

\* the collation elements of one character in the root order
RootCEs(c) ==
  CASE c = ZWNBSP -> <<>>
    [] c \in {GRAVE, ACUTE, DOT_ABOVE} -> <<MarkCE(c)>>
    [] c \in {"à", "À"} -> <<LetterCE(c), MarkCE(GRAVE)>>
    [] c \in {"é", "É"} -> <<LetterCE(c), MarkCE(ACUTE)>>
    [] c = I_DOT -> <<LetterCE(c), MarkCE(DOT_ABOVE)>>
    [] c = "ß" -> <<CE(Primary("s"), Secondary("ß"), 0, 1),
                    CE(Primary("s"), Secondary("none"), 0, 8)>>
    [] c = "ẞ" -> <<CE(Primary("s"), Secondary("ß"), 2, 12),
                    CE(Primary("s"), Secondary("none"), 2, 13)>>
    [] OTHER -> <<LetterCE(c)>>

\* what a locale changes in the root order: the collation elements of its
\* units, a unit being a character or a contraction (several characters that
\* sort as one letter)
Row(unit, ces) == <<unit, ces>>

Rows(loc) ==
  CASE loc = "hr-HR" ->
         <<Row(<<"C", ACUTE>>, <<CE(After("c", 2), 3, 2, 2)>>),
           Row(<<"c", ACUTE>>, <<CE(After("c", 2), 3, 0, 1)>>),
           Row(<<"L", "J">>, <<CE(After("l", 1), 3, 2, 5)>>),
           Row(<<"L", "j">>, <<CE(After("l", 1), 3, 1, 3)>>),
           Row(<<"l", "j">>, <<CE(After("l", 1), 3, 0, 1)>>),
           Row(<<"N", "J">>, <<CE(After("n", 1), 3, 2, 5)>>),
           Row(<<"N", "j">>, <<CE(After("n", 1), 3, 1, 3)>>),
           Row(<<"n", "j">>, <<CE(After("n", 1), 3, 0, 1)>>)>>
    [] loc = "fil-PH" ->
         <<Row(<<"N", "G">>, <<CE(After("n", 2), 3, 2, 3)>>),
           Row(<<"N", "g">>, <<CE(After("n", 2), 3, 1, 2)>>),
           Row(<<"n", "g">>, <<CE(After("n", 2), 3, 0, 1)>>)>>
    [] loc = "cs-CZ" ->
         <<Row(<<"C", "H">>, <<CE(After("h", 1), 3, 2, 4)>>),
           Row(<<"C", "h">>, <<CE(After("h", 1), 3, 1, 3)>>),
           Row(<<"c", "H">>, <<CE(After("h", 1), 3, 1, 2)>>),
           Row(<<"c", "h">>, <<CE(After("h", 1), 3, 0, 1)>>)>>
    [] loc = "nb-NO" ->
         <<Row(<<"A", "A">>, <<CE(After("z", 13), 4, 2, 3)>>),
           Row(<<"A", "a">>, <<CE(After("z", 13), 4, 1, 2)>>),
           Row(<<"a", "a">>, <<CE(After("z", 13), 4, 0, 1)>>),
           Row(<<"A", "À">>, <<CE(After("z", 13), 4, 2, 3), CE(0, 8, 0, 1)>>),
           Row(<<"A", "à">>, <<CE(After("z", 13), 4, 1, 2), CE(0, 8, 0, 1)>>),
           Row(<<"a", "à">>, <<CE(After("z", 13), 4, 0, 1), CE(0, 8, 0, 1)>>)>>
    [] loc = "lv-LV" ->
         <<Row(<<"Y">>, <<CE(After("i", 1), 3, 2, 2)>>),
           Row(<<"y">>, <<CE(After("i", 1), 3, 0, 1)>>)>>
    [] loc = "fy-NL" ->
         <<Row(<<"Y">>, <<CE(Primary("i"), 4, 2, 2)>>),
           Row(<<"y">>, <<CE(Primary("i"), 4, 0, 1)>>)>>
    [] loc = "blo-BJ" ->
         <<Row(<<"G", "B">>, <<CE(After("g", 1), 3, 2, 3)>>),
           Row(<<"G", "b">>, <<CE(After("g", 1), 3, 1, 2)>>),
           Row(<<"g", "b">>, <<CE(After("g", 1), 3, 0, 1)>>),
           Row(<<"K", "P">>, <<CE(After("k", 1), 3, 2, 3)>>),
           Row(<<"K", "p">>, <<CE(After("k", 1), 3, 1, 2)>>),
           Row(<<"k", "p">>, <<CE(After("k", 1), 3, 0, 1)>>),
           Row(<<"N", "Y">>, <<CE(After("n", 1), 3, 2, 3)>>),
           Row(<<"N", "y">>, <<CE(After("n", 1), 3, 1, 2)>>),
           Row(<<"n", "y">>, <<CE(After("n", 1), 3, 0, 1)>>),
           Row(<<"S", "H">>, <<CE(After("s", 1), 3, 2, 3)>>),
           Row(<<"S", "h">>, <<CE(After("s", 1), 3, 1, 2)>>),
           Row(<<"s", "h">>, <<CE(After("s", 1), 3, 0, 1)>>)>>
    [] loc = "zh-CN" ->
         <<Row(<<"A", GRAVE>>, <<CE(Primary("a"), 2, 2, 2)>>),
           Row(<<"a", GRAVE>>, <<CE(Primary("a"), 2, 0, 1)>>),
           Row(<<"A", ACUTE>>, <<CE(Primary("a"), 1, 2, 2)>>),
           Row(<<"a", ACUTE>>, <<CE(Primary("a"), 1, 0, 1)>>),
           Row(<<"E", GRAVE>>, <<CE(Primary("e"), 2, 2, 2)>>),
           Row(<<"e", GRAVE>>, <<CE(Primary("e"), 2, 0, 1)>>),
           Row(<<"E", ACUTE>>, <<CE(Primary("e"), 1, 2, 2)>>),
           Row(<<"e", ACUTE>>, <<CE(Primary("e"), 1, 0, 1)>>),
           Row(<<"I", GRAVE>>, <<CE(Primary("i"), 2, 2, 2)>>),
           Row(<<"i", GRAVE>>, <<CE(Primary("i"), 2, 0, 1)>>),
           Row(<<"I", ACUTE>>, <<CE(Primary("i"), 1, 2, 2)>>),
           Row(<<"i", ACUTE>>, <<CE(Primary("i"), 1, 0, 1)>>),
           Row(<<"M", GRAVE>>, <<CE(Primary("m"), 2, 2, 2)>>),
           Row(<<"m", GRAVE>>, <<CE(Primary("m"), 2, 0, 1)>>),
           Row(<<"M", ACUTE>>, <<CE(Primary("m"), 1, 2, 2)>>),
           Row(<<"m", ACUTE>>, <<CE(Primary("m"), 1, 0, 1)>>),
           Row(<<"N", GRAVE>>, <<CE(Primary("n"), 2, 2, 2)>>),
           Row(<<"n", GRAVE>>, <<CE(Primary("n"), 2, 0, 1)>>),
           Row(<<"N", ACUTE>>, <<CE(Primary("n"), 1, 2, 2)>>),
           Row(<<"n", ACUTE>>, <<CE(Primary("n"), 1, 0, 1)>>),
           Row(<<"O", GRAVE>>, <<CE(Primary("o"), 2, 2, 2)>>),
           Row(<<"o", GRAVE>>, <<CE(Primary("o"), 2, 0, 1)>>),
           Row(<<"O", ACUTE>>, <<CE(Primary("o"), 1, 2, 2)>>),
           Row(<<"o", ACUTE>>, <<CE(Primary("o"), 1, 0, 1)>>),
           Row(<<"U", GRAVE>>, <<CE(Primary("u"), 2, 2, 2)>>),
           Row(<<"u", GRAVE>>, <<CE(Primary("u"), 2, 0, 1)>>),
           Row(<<"U", ACUTE>>, <<CE(Primary("u"), 1, 2, 2)>>),
           Row(<<"u", ACUTE>>, <<CE(Primary("u"), 1, 0, 1)>>),
           Row(<<"À">>, <<CE(Primary("a"), 2, 2, 2)>>),
           Row(<<"à">>, <<CE(Primary("a"), 2, 0, 1)>>),
           Row(<<"É">>, <<CE(Primary("e"), 1, 2, 2)>>),
           Row(<<"é">>, <<CE(Primary("e"), 1, 0, 1)>>)>>
    [] loc = "az-AZ" ->
         <<Row(<<"I">>, <<CE(After("h", 2), 3, 2, 2)>>),
           Row(<<"I", DOT_ABOVE>>, <<CE(Primary("i"), 3, 2, 2)>>),
           Row(<<I_DOT>>, <<CE(Primary("i"), 3, 2, 2)>>),
           Row(<<"Q">>, <<CE(After("k", 1), 3, 2, 2)>>),
           Row(<<"q">>, <<CE(After("k", 1), 3, 0, 1)>>),
           Row(<<"W">>, <<CE(After("z", 1), 3, 2, 2)>>),
           Row(<<"w">>, <<CE(After("z", 1), 3, 0, 1)>>),
           Row(<<"X">>, <<CE(After("h", 1), 3, 2, 2)>>),
           Row(<<"x">>, <<CE(After("h", 1), 3, 0, 1)>>)>>
    [] loc = "br-FR" ->
         <<Row(<<"C", "'", "H">>, <<CE(After("c", 2), 3, 1, 3)>>),
           Row(<<"C", "'", "h">>, <<CE(After("c", 2), 3, 1, 2)>>),
           Row(<<"c", "'", "h">>, <<CE(After("c", 2), 3, 0, 1)>>),
           Row(<<"C", "H">>, <<CE(After("c", 1), 3, 2, 3)>>),
           Row(<<"C", "h">>, <<CE(After("c", 1), 3, 1, 2)>>),
           Row(<<"c", "h">>, <<CE(After("c", 1), 3, 0, 1)>>)>>
    [] loc = "cy-GB" ->
         <<Row(<<"C", "H">>, <<CE(After("c", 1), 3, 2, 3)>>),
           Row(<<"C", "h">>, <<CE(After("c", 1), 3, 1, 2)>>),
           Row(<<"c", "h">>, <<CE(After("c", 1), 3, 0, 1)>>),
           Row(<<"D", "D">>, <<CE(After("d", 1), 3, 2, 3)>>),
           Row(<<"D", "d">>, <<CE(After("d", 1), 3, 1, 2)>>),
           Row(<<"d", "d">>, <<CE(After("d", 1), 3, 0, 1)>>),
           Row(<<"F", "F">>, <<CE(After("f", 1), 3, 2, 3)>>),
           Row(<<"F", "f">>, <<CE(After("f", 1), 3, 1, 2)>>),
           Row(<<"f", "f">>, <<CE(After("f", 1), 3, 0, 1)>>),
           Row(<<"L", "L">>, <<CE(After("l", 1), 3, 2, 3)>>),
           Row(<<"L", "l">>, <<CE(After("l", 1), 3, 1, 2)>>),
           Row(<<"l", "l">>, <<CE(After("l", 1), 3, 0, 1)>>),
           Row(<<"N", "G">>, <<CE(After("g", 1), 3, 2, 3)>>),
           Row(<<"N", "g">>, <<CE(After("g", 1), 3, 1, 2)>>),
           Row(<<"n", "g">>, <<CE(After("g", 1), 3, 0, 1)>>),
           Row(<<"P", "H">>, <<CE(After("p", 1), 3, 2, 3)>>),
           Row(<<"P", "h">>, <<CE(After("p", 1), 3, 1, 2)>>),
           Row(<<"p", "h">>, <<CE(After("p", 1), 3, 0, 1)>>),
           Row(<<"R", "H">>, <<CE(After("r", 1), 3, 2, 3)>>),
           Row(<<"R", "h">>, <<CE(After("r", 1), 3, 1, 2)>>),
           Row(<<"r", "h">>, <<CE(After("r", 1), 3, 0, 1)>>),
           Row(<<"T", "H">>, <<CE(After("t", 1), 3, 2, 3)>>),
           Row(<<"T", "h">>, <<CE(After("t", 1), 3, 1, 2)>>),
           Row(<<"t", "h">>, <<CE(After("t", 1), 3, 0, 1)>>)>>
    [] loc = "da-DK" ->
         <<Row(<<"A", "A">>, <<CE(After("z", 13), 3, 2, 5)>>),
           Row(<<"A", "a">>, <<CE(After("z", 13), 3, 1, 4)>>),
           Row(<<"a", "a">>, <<CE(After("z", 13), 3, 0, 3)>>),
           Row(<<"A", "À">>, <<CE(After("z", 13), 3, 2, 5), CE(0, 8, 0, 1)>>),
           Row(<<"A", "à">>, <<CE(After("z", 13), 3, 1, 4), CE(0, 8, 0, 1)>>),
           Row(<<"a", "à">>, <<CE(After("z", 13), 3, 0, 3), CE(0, 8, 0, 1)>>)>>
    [] loc = "dsb-DE" ->
         <<Row(<<"C", "H">>, <<CE(After("h", 1), 3, 2, 4)>>),
           Row(<<"C", "h">>, <<CE(After("h", 1), 3, 1, 3)>>),
           Row(<<"c", "H">>, <<CE(After("h", 1), 3, 1, 2)>>),
           Row(<<"c", "h">>, <<CE(After("h", 1), 3, 0, 1)>>),
           Row(<<"C", ACUTE>>, <<CE(After("c", 2), 3, 2, 2)>>),
           Row(<<"c", ACUTE>>, <<CE(After("c", 2), 3, 0, 1)>>),
           Row(<<"N", ACUTE>>, <<CE(After("n", 1), 3, 2, 2)>>),
           Row(<<"n", ACUTE>>, <<CE(After("n", 1), 3, 0, 1)>>),
           Row(<<"R", ACUTE>>, <<CE(After("r", 1), 3, 2, 2)>>),
           Row(<<"r", ACUTE>>, <<CE(After("r", 1), 3, 0, 1)>>),
           Row(<<"S", ACUTE>>, <<CE(After("s", 2), 3, 2, 2)>>),
           Row(<<"s", ACUTE>>, <<CE(After("s", 2), 3, 0, 1)>>),
           Row(<<"Z", ACUTE>>, <<CE(After("z", 2), 3, 2, 2)>>),
           Row(<<"z", ACUTE>>, <<CE(After("z", 2), 3, 0, 1)>>)>>
    [] loc = "ee-GH" ->
         <<Row(<<"D", "Z">>, <<CE(After("d", 1), 3, 2, 3)>>),
           Row(<<"D", "z">>, <<CE(After("d", 1), 3, 1, 2)>>),
           Row(<<"d", "z">>, <<CE(After("d", 1), 3, 0, 1)>>),
           Row(<<"G", "B">>, <<CE(After("g", 1), 3, 2, 3)>>),
           Row(<<"G", "b">>, <<CE(After("g", 1), 3, 1, 2)>>),
           Row(<<"g", "b">>, <<CE(After("g", 1), 3, 0, 1)>>),
           Row(<<"K", "P">>, <<CE(After("k", 1), 3, 2, 3)>>),
           Row(<<"K", "p">>, <<CE(After("k", 1), 3, 1, 2)>>),
           Row(<<"k", "p">>, <<CE(After("k", 1), 3, 0, 1)>>),
           Row(<<"N", "Y">>, <<CE(After("n", 1), 3, 2, 3)>>),
           Row(<<"N", "y">>, <<CE(After("n", 1), 3, 1, 2)>>),
           Row(<<"n", "y">>, <<CE(After("n", 1), 3, 0, 1)>>),
           Row(<<"T", "S">>, <<CE(After("t", 1), 3, 2, 3)>>),
           Row(<<"T", "s">>, <<CE(After("t", 1), 3, 1, 2)>>),
           Row(<<"t", "s">>, <<CE(After("t", 1), 3, 0, 1)>>),
           Row(<<"X">>, <<CE(After("h", 1), 3, 2, 2)>>),
           Row(<<"x">>, <<CE(After("h", 1), 3, 0, 1)>>)>>
    [] loc = "el-GR" ->
         <<Row(<<"Α">>, <<CE(After("9", 1), 3, 2, 14)>>),
           Row(<<"α">>, <<CE(After("9", 1), 3, 0, 1)>>),
           Row(<<"ς">>, <<CE(After("9", 2), 3, 0, 16)>>),
           Row(<<"Σ">>, <<CE(After("9", 2), 3, 2, 11)>>),
           Row(<<"σ">>, <<CE(After("9", 2), 3, 0, 1)>>)>>
    [] loc = "et-EE" ->
         <<Row(<<"Z">>, <<CE(After("s", 4), 3, 2, 2)>>),
           Row(<<"z">>, <<CE(After("s", 4), 3, 0, 1)>>)>>
    [] loc = "ha-NG" ->
         <<Row(<<"'", "Y">>, <<CE(After("y", 1), 3, 1, 6)>>),
           Row(<<"'", "y">>, <<CE(After("y", 1), 3, 0, 3)>>),
           Row(<<"S", "H">>, <<CE(After("s", 1), 3, 2, 3)>>),
           Row(<<"S", "h">>, <<CE(After("s", 1), 3, 1, 2)>>),
           Row(<<"s", "h">>, <<CE(After("s", 1), 3, 0, 1)>>),
           Row(<<"T", "S">>, <<CE(After("t", 1), 3, 2, 3)>>),
           Row(<<"T", "s">>, <<CE(After("t", 1), 3, 1, 2)>>),
           Row(<<"t", "s">>, <<CE(After("t", 1), 3, 0, 1)>>)>>
    [] loc = "haw-US" ->
         <<Row(<<"E">>, <<CE(After("a", 1), 3, 2, 2)>>),
           Row(<<"e">>, <<CE(After("a", 1), 3, 0, 1)>>),
           Row(<<"I">>, <<CE(After("a", 2), 3, 2, 2)>>),
           Row(<<"i">>, <<CE(After("a", 2), 3, 0, 1)>>),
           Row(<<I_DOT>>, <<CE(After("a", 2), 3, 2, 2), CE(0, 10, 0, 1)>>),
           Row(<<"O">>, <<CE(After("a", 3), 3, 2, 2)>>),
           Row(<<"o">>, <<CE(After("a", 3), 3, 0, 1)>>),
           Row(<<"U">>, <<CE(After("a", 4), 3, 2, 2)>>),
           Row(<<"u">>, <<CE(After("a", 4), 3, 0, 1)>>),
           Row(<<"É">>, <<CE(After("a", 1), 3, 2, 2), CE(0, 7, 0, 1)>>),
           Row(<<"é">>, <<CE(After("a", 1), 3, 0, 1), CE(0, 7, 0, 1)>>)>>
    [] loc = "hsb-DE" ->
         <<Row(<<"C", "H">>, <<CE(After("h", 1), 3, 2, 4)>>),
           Row(<<"C", "h">>, <<CE(After("h", 1), 3, 1, 3)>>),
           Row(<<"c", "H">>, <<CE(After("h", 1), 3, 1, 2)>>),
           Row(<<"c", "h">>, <<CE(After("h", 1), 3, 0, 1)>>),
           Row(<<"C", ACUTE>>, <<CE(After("c", 2), 3, 2, 2)>>),
           Row(<<"c", ACUTE>>, <<CE(After("c", 2), 3, 0, 1)>>),
           Row(<<"Z", ACUTE>>, <<CE(After("z", 2), 3, 2, 2)>>),
           Row(<<"z", ACUTE>>, <<CE(After("z", 2), 3, 0, 1)>>)>>
    [] loc = "hu-HU" ->
         <<Row(<<"C", "C", "S">>, <<CE(After("c", 1), 3, 2, 6), CE(After("c", 1), 3, 2, 5)>>),
           Row(<<"C", "c", "s">>, <<CE(After("c", 1), 3, 1, 4), CE(After("c", 1), 3, 0, 1)>>),
           Row(<<"c", "c", "s">>, <<CE(After("c", 1), 3, 0, 2), CE(After("c", 1), 3, 0, 1)>>),
           Row(<<"C", "S">>, <<CE(After("c", 1), 3, 2, 5)>>),
           Row(<<"C", "s">>, <<CE(After("c", 1), 3, 1, 3)>>),
           Row(<<"c", "s">>, <<CE(After("c", 1), 3, 0, 1)>>),
           Row(<<"D", "D", "Z">>, <<CE(After("d", 1), 3, 2, 6), CE(After("d", 1), 3, 2, 5)>>),
           Row(<<"D", "d", "z">>, <<CE(After("d", 1), 3, 1, 4), CE(After("d", 1), 3, 0, 1)>>),
           Row(<<"d", "d", "z">>, <<CE(After("d", 1), 3, 0, 2), CE(After("d", 1), 3, 0, 1)>>),
           Row(<<"D", "D", "Z", "S">>, <<CE(After("d", 2), 3, 2, 6), CE(After("d", 2), 3, 2, 5)>>),
           Row(<<"D", "d", "z", "s">>, <<CE(After("d", 2), 3, 1, 4), CE(After("d", 2), 3, 0, 1)>>),
           Row(<<"d", "d", "z", "s">>, <<CE(After("d", 2), 3, 0, 2), CE(After("d", 2), 3, 0, 1)>>),
           Row(<<"D", "Z">>, <<CE(After("d", 1), 3, 2, 5)>>),
           Row(<<"D", "z">>, <<CE(After("d", 1), 3, 1, 3)>>),
           Row(<<"d", "z">>, <<CE(After("d", 1), 3, 0, 1)>>),
           Row(<<"D", "Z", "S">>, <<CE(After("d", 2), 3, 2, 5)>>),
           Row(<<"D", "z", "s">>, <<CE(After("d", 2), 3, 1, 3)>>),
           Row(<<"d", "z", "s">>, <<CE(After("d", 2), 3, 0, 1)>>),
           Row(<<"G", "G", "Y">>, <<CE(After("g", 1), 3, 2, 6), CE(After("g", 1), 3, 2, 5)>>),
           Row(<<"G", "g", "y">>, <<CE(After("g", 1), 3, 1, 4), CE(After("g", 1), 3, 0, 1)>>),
           Row(<<"g", "g", "y">>, <<CE(After("g", 1), 3, 0, 2), CE(After("g", 1), 3, 0, 1)>>),
           Row(<<"G", "Y">>, <<CE(After("g", 1), 3, 2, 5)>>),
           Row(<<"G", "y">>, <<CE(After("g", 1), 3, 1, 3)>>),
           Row(<<"g", "y">>, <<CE(After("g", 1), 3, 0, 1)>>),
           Row(<<"L", "L", "Y">>, <<CE(After("l", 1), 3, 2, 6), CE(After("l", 1), 3, 2, 5)>>),
           Row(<<"L", "l", "y">>, <<CE(After("l", 1), 3, 1, 4), CE(After("l", 1), 3, 0, 1)>>),
           Row(<<"l", "l", "y">>, <<CE(After("l", 1), 3, 0, 2), CE(After("l", 1), 3, 0, 1)>>),
           Row(<<"L", "Y">>, <<CE(After("l", 1), 3, 2, 5)>>),
           Row(<<"L", "y">>, <<CE(After("l", 1), 3, 1, 3)>>),
           Row(<<"l", "y">>, <<CE(After("l", 1), 3, 0, 1)>>),
           Row(<<"N", "N", "Y">>, <<CE(After("n", 1), 3, 2, 6), CE(After("n", 1), 3, 2, 5)>>),
           Row(<<"N", "n", "y">>, <<CE(After("n", 1), 3, 1, 4), CE(After("n", 1), 3, 0, 1)>>),
           Row(<<"n", "n", "y">>, <<CE(After("n", 1), 3, 0, 2), CE(After("n", 1), 3, 0, 1)>>),
           Row(<<"N", "Y">>, <<CE(After("n", 1), 3, 2, 5)>>),
           Row(<<"N", "y">>, <<CE(After("n", 1), 3, 1, 3)>>),
           Row(<<"n", "y">>, <<CE(After("n", 1), 3, 0, 1)>>),
           Row(<<"S", "S", "Z">>, <<CE(After("s", 1), 3, 2, 6), CE(After("s", 1), 3, 2, 5)>>),
           Row(<<"S", "s", "z">>, <<CE(After("s", 1), 3, 1, 4), CE(After("s", 1), 3, 0, 1)>>),
           Row(<<"s", "s", "z">>, <<CE(After("s", 1), 3, 0, 2), CE(After("s", 1), 3, 0, 1)>>),
           Row(<<"S", "Z">>, <<CE(After("s", 1), 3, 2, 5)>>),
           Row(<<"S", "z">>, <<CE(After("s", 1), 3, 1, 3)>>),
           Row(<<"s", "z">>, <<CE(After("s", 1), 3, 0, 1)>>),
           Row(<<"T", "T", "Y">>, <<CE(After("t", 1), 3, 2, 6), CE(After("t", 1), 3, 2, 5)>>),
           Row(<<"T", "t", "y">>, <<CE(After("t", 1), 3, 1, 4), CE(After("t", 1), 3, 0, 1)>>),
           Row(<<"t", "t", "y">>, <<CE(After("t", 1), 3, 0, 2), CE(After("t", 1), 3, 0, 1)>>),
           Row(<<"T", "Y">>, <<CE(After("t", 1), 3, 2, 5)>>),
           Row(<<"T", "y">>, <<CE(After("t", 1), 3, 1, 3)>>),
           Row(<<"t", "y">>, <<CE(After("t", 1), 3, 0, 1)>>),
           Row(<<"Z", "S">>, <<CE(After("z", 1), 3, 2, 5)>>),
           Row(<<"Z", "s">>, <<CE(After("z", 1), 3, 1, 3)>>),
           Row(<<"z", "s">>, <<CE(After("z", 1), 3, 0, 1)>>),
           Row(<<"Z", "Z", "S">>, <<CE(After("z", 1), 3, 2, 6), CE(After("z", 1), 3, 2, 5)>>),
           Row(<<"Z", "z", "s">>, <<CE(After("z", 1), 3, 1, 4), CE(After("z", 1), 3, 0, 1)>>),
           Row(<<"z", "z", "s">>, <<CE(After("z", 1), 3, 0, 2), CE(After("z", 1), 3, 0, 1)>>)>>
    [] loc = "ig-NG" ->
         <<Row(<<"C", "H">>, <<CE(After("b", 1), 3, 2, 3)>>),
           Row(<<"C", "h">>, <<CE(After("b", 1), 3, 1, 2)>>),
           Row(<<"c", "h">>, <<CE(After("b", 1), 3, 0, 1)>>),
           Row(<<"G", "B">>, <<CE(After("g", 1), 3, 2, 3)>>),
           Row(<<"G", "b">>, <<CE(After("g", 1), 3, 1, 2)>>),
           Row(<<"g", "b">>, <<CE(After("g", 1), 3, 0, 1)>>),
           Row(<<"G", "H">>, <<CE(After("g", 2), 3, 2, 3)>>),
           Row(<<"G", "h">>, <<CE(After("g", 2), 3, 1, 2)>>),
           Row(<<"g", "h">>, <<CE(After("g", 2), 3, 0, 1)>>),
           Row(<<"G", "W">>, <<CE(After("g", 3), 3, 2, 3)>>),
           Row(<<"G", "w">>, <<CE(After("g", 3), 3, 1, 2)>>),
           Row(<<"g", "w">>, <<CE(After("g", 3), 3, 0, 1)>>),
           Row(<<"K", "P">>, <<CE(After("k", 1), 3, 2, 3)>>),
           Row(<<"K", "p">>, <<CE(After("k", 1), 3, 1, 2)>>),
           Row(<<"k", "p">>, <<CE(After("k", 1), 3, 0, 1)>>),
           Row(<<"K", "W">>, <<CE(After("k", 2), 3, 2, 3)>>),
           Row(<<"K", "w">>, <<CE(After("k", 2), 3, 1, 2)>>),
           Row(<<"k", "w">>, <<CE(After("k", 2), 3, 0, 1)>>),
           Row(<<"N", "W">>, <<CE(After("n", 2), 3, 2, 3)>>),
           Row(<<"N", "w">>, <<CE(After("n", 2), 3, 1, 2)>>),
           Row(<<"n", "w">>, <<CE(After("n", 2), 3, 0, 1)>>),
           Row(<<"N", "Y">>, <<CE(After("n", 3), 3, 2, 3)>>),
           Row(<<"N", "y">>, <<CE(After("n", 3), 3, 1, 2)>>),
           Row(<<"n", "y">>, <<CE(After("n", 3), 3, 0, 1)>>),
           Row(<<"N", DOT_ABOVE>>, <<CE(After("n", 1), 3, 2, 2)>>),
           Row(<<"n", DOT_ABOVE>>, <<CE(After("n", 1), 3, 0, 1)>>),
           Row(<<"S", "H">>, <<CE(After("s", 1), 3, 2, 3)>>),
           Row(<<"S", "h">>, <<CE(After("s", 1), 3, 1, 2)>>),
           Row(<<"s", "h">>, <<CE(After("s", 1), 3, 0, 1)>>)>>
    [] loc = "is-IS" ->
         <<Row(<<"A", ACUTE>>, <<CE(After("a", 5), 3, 2, 2)>>),
           Row(<<"a", ACUTE>>, <<CE(After("a", 5), 3, 0, 1)>>),
           Row(<<"E", ACUTE>>, <<CE(After("e", 2), 3, 2, 2)>>),
           Row(<<"e", ACUTE>>, <<CE(After("e", 2), 3, 0, 1)>>),
           Row(<<"I", ACUTE>>, <<CE(After("i", 2), 3, 2, 2)>>),
           Row(<<"i", ACUTE>>, <<CE(After("i", 2), 3, 0, 1)>>),
           Row(<<"O", ACUTE>>, <<CE(After("o", 2), 3, 2, 2)>>),
           Row(<<"o", ACUTE>>, <<CE(After("o", 2), 3, 0, 1)>>),
           Row(<<"U", ACUTE>>, <<CE(After("u", 2), 3, 2, 2)>>),
           Row(<<"u", ACUTE>>, <<CE(After("u", 2), 3, 0, 1)>>),
           Row(<<"Y", ACUTE>>, <<CE(After("y", 2), 3, 2, 2)>>),
           Row(<<"y", ACUTE>>, <<CE(After("y", 2), 3, 0, 1)>>),
           Row(<<"É">>, <<CE(After("e", 2), 3, 2, 2)>>),
           Row(<<"é">>, <<CE(After("e", 2), 3, 0, 1)>>)>>
    [] loc = "ja-JP" ->
         <<Row(<<IDSP>>, <<CE(Primary(" "), 3, 0, 1)>>)>>
    [] loc = "kl-GL" ->
         <<Row(<<"K", "'">>, <<CE(Primary("q"), 4, 1, 2)>>)>>
    [] loc = "ku-TR" ->
         <<Row(<<"E", ACUTE>>, <<CE(After("e", 1), 4, 2, 2)>>),
           Row(<<"e", ACUTE>>, <<CE(After("e", 1), 4, 0, 1)>>),
           Row(<<"I", ACUTE>>, <<CE(After("i", 1), 4, 2, 2)>>),
           Row(<<"i", ACUTE>>, <<CE(After("i", 1), 4, 0, 1)>>),
           Row(<<"U", GRAVE>>, <<CE(After("u", 1), 5, 2, 2)>>),
           Row(<<"u", GRAVE>>, <<CE(After("u", 1), 5, 0, 1)>>),
           Row(<<"U", ACUTE>>, <<CE(After("u", 1), 4, 2, 2)>>),
           Row(<<"u", ACUTE>>, <<CE(After("u", 1), 4, 0, 1)>>),
           Row(<<"É">>, <<CE(After("e", 1), 4, 2, 2)>>),
           Row(<<"é">>, <<CE(After("e", 1), 4, 0, 1)>>)>>
    [] loc = "lt-LT" ->
         <<Row(<<"E", DOT_ABOVE>>, <<CE(Primary("e"), 5, 2, 2)>>),
           Row(<<"e", DOT_ABOVE>>, <<CE(Primary("e"), 5, 0, 1)>>),
           Row(<<"Y">>, <<CE(Primary("i"), 5, 2, 2)>>),
           Row(<<"y">>, <<CE(Primary("i"), 5, 0, 1)>>),
           Row(<<DOT_ABOVE, GRAVE>>, <<CE(0, 8, 0, 1)>>),
           Row(<<DOT_ABOVE, ACUTE>>, <<CE(0, 7, 0, 1)>>)>>
    [] loc = "mt-MT" ->
         <<Row(<<"C", DOT_ABOVE>>, <<CE(After("b", 2), 3, 2, 2)>>),
           Row(<<"c", DOT_ABOVE>>, <<CE(After("b", 2), 3, 0, 1)>>),
           Row(<<"G", DOT_ABOVE>>, <<CE(After("f", 2), 3, 2, 2)>>),
           Row(<<"g", DOT_ABOVE>>, <<CE(After("f", 2), 3, 0, 1)>>),
           Row(<<"Z", DOT_ABOVE>>, <<CE(After("y", 2), 3, 2, 2)>>),
           Row(<<"z", DOT_ABOVE>>, <<CE(After("y", 2), 3, 0, 1)>>)>>
    [] loc = "om-ET" ->
         <<Row(<<"C", "H">>, <<CE(After("z", 1), 3, 2, 3)>>),
           Row(<<"C", "h">>, <<CE(After("z", 1), 3, 1, 2)>>),
           Row(<<"c", "h">>, <<CE(After("z", 1), 3, 0, 1)>>),
           Row(<<"D", "H">>, <<CE(After("z", 2), 3, 2, 3)>>),
           Row(<<"D", "h">>, <<CE(After("z", 2), 3, 1, 2)>>),
           Row(<<"d", "h">>, <<CE(After("z", 2), 3, 0, 1)>>),
           Row(<<"K", "H">>, <<CE(After("z", 3), 3, 2, 3)>>),
           Row(<<"K", "h">>, <<CE(After("z", 3), 3, 1, 2)>>),
           Row(<<"k", "h">>, <<CE(After("z", 3), 3, 0, 1)>>),
           Row(<<"N", "Y">>, <<CE(After("z", 4), 3, 2, 3)>>),
           Row(<<"N", "y">>, <<CE(After("z", 4), 3, 1, 2)>>),
           Row(<<"n", "y">>, <<CE(After("z", 4), 3, 0, 1)>>),
           Row(<<"P", "H">>, <<CE(After("z", 5), 3, 2, 3)>>),
           Row(<<"P", "h">>, <<CE(After("z", 5), 3, 1, 2)>>),
           Row(<<"p", "h">>, <<CE(After("z", 5), 3, 0, 1)>>),
           Row(<<"S", "h">>, <<CE(After("z", 6), 3, 1, 2)>>),
           Row(<<"s", "h">>, <<CE(After("z", 6), 3, 0, 1)>>)>>
    [] loc = "pl-PL" ->
         <<Row(<<"C", ACUTE>>, <<CE(After("c", 1), 3, 2, 2)>>),
           Row(<<"c", ACUTE>>, <<CE(After("c", 1), 3, 0, 1)>>),
           Row(<<"N", ACUTE>>, <<CE(After("n", 1), 3, 2, 2)>>),
           Row(<<"n", ACUTE>>, <<CE(After("n", 1), 3, 0, 1)>>),
           Row(<<"O", ACUTE>>, <<CE(After("o", 1), 3, 2, 2)>>),
           Row(<<"o", ACUTE>>, <<CE(After("o", 1), 3, 0, 1)>>),
           Row(<<"S", ACUTE>>, <<CE(After("s", 1), 3, 2, 2)>>),
           Row(<<"s", ACUTE>>, <<CE(After("s", 1), 3, 0, 1)>>),
           Row(<<"Z", ACUTE>>, <<CE(After("z", 1), 3, 2, 2)>>),
           Row(<<"z", ACUTE>>, <<CE(After("z", 1), 3, 0, 1)>>),
           Row(<<"Z", DOT_ABOVE>>, <<CE(After("z", 2), 3, 2, 2)>>),
           Row(<<"z", DOT_ABOVE>>, <<CE(After("z", 2), 3, 0, 1)>>)>>
    [] loc = "se-NO" ->
         <<Row(<<"A", ACUTE>>, <<CE(After("a", 5), 3, 2, 2)>>),
           Row(<<"a", ACUTE>>, <<CE(After("a", 5), 3, 0, 1)>>),
           Row(<<"A", DOT_ABOVE>>, <<CE(After("z", 14), 4, 2, 2)>>),
           Row(<<"a", DOT_ABOVE>>, <<CE(After("z", 14), 4, 0, 1)>>),
           Row(<<"N", ACUTE>>, <<CE(After("n", 5), 4, 2, 2)>>),
           Row(<<"n", ACUTE>>, <<CE(After("n", 5), 4, 0, 1)>>)>>
    [] loc = "sl-SI" ->
         <<Row(<<"C", ACUTE>>, <<CE(After("c", 2), 3, 2, 2)>>),
           Row(<<"c", ACUTE>>, <<CE(After("c", 2), 3, 0, 1)>>)>>
    [] loc = "smn-FI" ->
         <<Row(<<"A", GRAVE>>, <<CE(After("a", 1), 4, 2, 2)>>),
           Row(<<"a", GRAVE>>, <<CE(After("a", 1), 4, 0, 1)>>),
           Row(<<"A", ACUTE>>, <<CE(After("z", 7), 3, 2, 2)>>),
           Row(<<"a", ACUTE>>, <<CE(After("z", 7), 3, 0, 1)>>),
           Row(<<"N", ACUTE>>, <<CE(After("n", 4), 5, 2, 2)>>),
           Row(<<"n", ACUTE>>, <<CE(After("n", 4), 5, 0, 1)>>),
           Row(<<"À">>, <<CE(After("a", 1), 4, 2, 2)>>),
           Row(<<"à">>, <<CE(After("a", 1), 4, 0, 1)>>)>>
    [] loc = "sq-AL" ->
         <<Row(<<"D", "H">>, <<CE(After("d", 3), 3, 2, 3)>>),
           Row(<<"D", "h">>, <<CE(After("d", 3), 3, 1, 2)>>),
           Row(<<"d", "h">>, <<CE(After("d", 3), 3, 0, 1)>>),
           Row(<<"G", "J">>, <<CE(After("g", 4), 3, 2, 3)>>),
           Row(<<"G", "j">>, <<CE(After("g", 4), 3, 1, 2)>>),
           Row(<<"g", "j">>, <<CE(After("g", 4), 3, 0, 1)>>),
           Row(<<"L", "L">>, <<CE(After("l", 2), 3, 2, 3)>>),
           Row(<<"L", "l">>, <<CE(After("l", 2), 3, 1, 2)>>),
           Row(<<"l", "l">>, <<CE(After("l", 2), 3, 0, 1)>>),
           Row(<<"N", "J">>, <<CE(After("n", 5), 3, 2, 3)>>),
           Row(<<"N", "j">>, <<CE(After("n", 5), 3, 1, 2)>>),
           Row(<<"n", "j">>, <<CE(After("n", 5), 3, 0, 1)>>),
           Row(<<"R", "R">>, <<CE(After("r", 2), 3, 2, 3)>>),
           Row(<<"R", "r">>, <<CE(After("r", 2), 3, 1, 2)>>),
           Row(<<"r", "r">>, <<CE(After("r", 2), 3, 0, 1)>>),
           Row(<<"S", "H">>, <<CE(After("s", 3), 3, 2, 3)>>),
           Row(<<"S", "h">>, <<CE(After("s", 3), 3, 1, 2)>>),
           Row(<<"s", "h">>, <<CE(After("s", 3), 3, 0, 1)>>),
           Row(<<"T", "H">>, <<CE(After("t", 2), 3, 2, 3)>>),
           Row(<<"T", "h">>, <<CE(After("t", 2), 3, 1, 2)>>),
           Row(<<"t", "h">>, <<CE(After("t", 2), 3, 0, 1)>>),
           Row(<<"X", "H">>, <<CE(After("x", 1), 3, 2, 3)>>),
           Row(<<"X", "h">>, <<CE(After("x", 1), 3, 1, 2)>>),
           Row(<<"x", "h">>, <<CE(After("x", 1), 3, 0, 1)>>),
           Row(<<"Z", "H">>, <<CE(After("z", 8), 3, 2, 3)>>),
           Row(<<"Z", "h">>, <<CE(After("z", 8), 3, 1, 2)>>),
           Row(<<"z", "h">>, <<CE(After("z", 8), 3, 0, 1)>>)>>
    [] loc = "tk-TM" ->
         <<Row(<<"Y", ACUTE>>, <<CE(After("y", 1), 3, 2, 2)>>),
           Row(<<"y", ACUTE>>, <<CE(After("y", 1), 3, 0, 1)>>)>>
    [] loc = "to-TO" ->
         <<Row(<<"A", ACUTE>>, <<CE(Primary("a"), 4, 2, 2)>>),
           Row(<<"a", ACUTE>>, <<CE(Primary("a"), 4, 0, 1)>>),
           Row(<<"E", ACUTE>>, <<CE(Primary("e"), 4, 2, 2)>>),
           Row(<<"e", ACUTE>>, <<CE(Primary("e"), 4, 0, 1)>>),
           Row(<<"I", ACUTE>>, <<CE(Primary("i"), 4, 2, 2)>>),
           Row(<<"i", ACUTE>>, <<CE(Primary("i"), 4, 0, 1)>>),
           Row(<<"N", "G">>, <<CE(After("n", 1), 3, 2, 3)>>),
           Row(<<"N", "g">>, <<CE(After("n", 1), 3, 1, 2)>>),
           Row(<<"n", "g">>, <<CE(After("n", 1), 3, 0, 1)>>),
           Row(<<"O", ACUTE>>, <<CE(Primary("o"), 4, 2, 2)>>),
           Row(<<"o", ACUTE>>, <<CE(Primary("o"), 4, 0, 1)>>),
           Row(<<"U", ACUTE>>, <<CE(Primary("u"), 4, 2, 2)>>),
           Row(<<"u", ACUTE>>, <<CE(Primary("u"), 4, 0, 1)>>),
           Row(<<"É">>, <<CE(Primary("e"), 4, 2, 2)>>),
           Row(<<"é">>, <<CE(Primary("e"), 4, 0, 1)>>)>>
    [] loc = "tr-TR" ->
         <<Row(<<"I">>, <<CE(After("h", 2), 3, 2, 2)>>),
           Row(<<"I", DOT_ABOVE>>, <<CE(Primary("i"), 3, 2, 2)>>),
           Row(<<I_DOT>>, <<CE(Primary("i"), 3, 2, 2)>>)>>
    [] loc = "uz-UZ" ->
         <<Row(<<"C", "H">>, <<CE(After("z", 12), 3, 2, 3)>>),
           Row(<<"C", "h">>, <<CE(After("z", 12), 3, 1, 2)>>),
           Row(<<"c", "h">>, <<CE(After("z", 12), 3, 0, 1)>>),
           Row(<<"G", "'">>, <<CE(After("z", 10), 3, 1, 2)>>),
           Row(<<"g", "'">>, <<CE(After("z", 10), 3, 0, 1)>>),
           Row(<<"O", "'">>, <<CE(After("z", 9), 3, 1, 2)>>),
           Row(<<"o", "'">>, <<CE(After("z", 9), 3, 0, 1)>>),
           Row(<<"S", "H">>, <<CE(After("z", 11), 3, 2, 3)>>),
           Row(<<"S", "h">>, <<CE(After("z", 11), 3, 1, 2)>>),
           Row(<<"s", "h">>, <<CE(After("z", 11), 3, 0, 1)>>)>>
    [] loc = "vi-VN" ->
         <<Row(<<"É">>, <<CE(Primary("e"), 3, 2, 10), CE(0, 9, 0, 1)>>),
           Row(<<"é">>, <<CE(Primary("e"), 3, 0, 1), CE(0, 9, 0, 1)>>),
           Row(<<ACUTE>>, <<CE(0, 9, 0, 1)>>)>>
    [] loc = "wo-SN" ->
         <<Row(<<"A", GRAVE>>, <<CE(After("a", 1), 3, 2, 2)>>),
           Row(<<"a", GRAVE>>, <<CE(After("a", 1), 3, 0, 1)>>),
           Row(<<"E", ACUTE>>, <<CE(After("e", 1), 3, 2, 2)>>),
           Row(<<"e", ACUTE>>, <<CE(After("e", 1), 3, 0, 1)>>),
           Row(<<"O", ACUTE>>, <<CE(After("o", 1), 3, 2, 2)>>),
           Row(<<"o", ACUTE>>, <<CE(After("o", 1), 3, 0, 1)>>),
           Row(<<"À">>, <<CE(After("a", 1), 3, 2, 2)>>),
           Row(<<"à">>, <<CE(After("a", 1), 3, 0, 1)>>),
           Row(<<"É">>, <<CE(After("e", 1), 3, 2, 2)>>),
           Row(<<"é">>, <<CE(After("e", 1), 3, 0, 1)>>)>>
    [] loc = "yo-NG" ->
         <<Row(<<"G", "B">>, <<CE(After("g", 1), 3, 2, 3)>>),
           Row(<<"G", "b">>, <<CE(After("g", 1), 3, 1, 2)>>),
           Row(<<"g", "b">>, <<CE(After("g", 1), 3, 0, 1)>>)>>
    [] OTHER -> <<>>

\* f itself, held as an explicit table of its values
Table(f) == f @@ <<>>

\* the units of the rows and the collation elements of one of them
UnitsOf(rows) == {r[1] : r \in Range(rows)}
ElementsOf(rows, unit) == (CHOOSE r \in Range(rows) : r[1] = unit)[2]

\* the table of a locale: the collation elements of each of its units
TailoringOf(rows) == Table([unit \in UnitsOf(rows) |-> ElementsOf(rows, unit)])
Tailoring == Table([loc \in Locales |-> TailoringOf(Rows(loc))])

\* the collator of a locale: the locale, the collation elements of its units,
\* its contractions (the units longer than one character), and the characters
\* at which it starts no comparison (the accents and the later characters of
\* the contractions)
CollatorOf(loc, t) ==
  [locale |-> loc,
   elements |-> t,
   contractions |-> {u \in DOMAIN t : Len(u) > 1},
   unsafe |-> {GRAVE, ACUTE, DOT_ABOVE}
              \cup UNION {{u[k] : k \in 2..Len(u)} : u \in DOMAIN t}]

Collators == Table([loc \in Locales |-> CollatorOf(loc, Tailoring[loc])])

\* the root collation elements of the characters of the alphabet
RootElements == Table([c \in Alphabet |-> RootCEs(c)])

\* the collation elements of one character
CharCEs(col, c) ==
  IF <<c>> \in DOMAIN col.elements THEN col.elements[<<c>>]
  ELSE RootElements[c]

\* the contraction of the locale that starts at position i of s, the longest
\* when several do: <<>> when none
Longest(units) ==
  IF units = {} THEN <<>>
  ELSE CHOOSE u \in units : \A v \in units : Len(v) <= Len(u)

ContractionAt(col, s, i) ==
  Longest({u \in col.contractions : HasPrefixAt(s, i, u)})

\* the collation elements of s from position i on
RECURSIVE CEsFrom(_, _, _), CEsUnit(_, _, _, _)
CEsFrom(col, s, i) ==
  IF i > Len(s) THEN <<>> ELSE CEsUnit(col, s, i, ContractionAt(col, s, i))

CEsUnit(col, s, i, unit) ==
  IF unit = <<>>
  THEN CharCEs(col, s[i]) \o CEsFrom(col, s, i + 1)
  ELSE col.elements[unit] \o CEsFrom(col, s, i + Len(unit))

\* the options of the locales: upper case before lower case; white space and
\* punctuation ignored; the accents compared from the end of the string
UpperFirst(loc) == loc \in {"da-DK", "mt-MT"}
Shifted(loc) == loc = "th-TH"
Backwards(loc) == loc = "fr-CA"

\* white space and punctuation: the elements a shifted comparison ignores, with
\* the accents that follow them in the part of the string it looks at
IsVariable(ce) == ce[1] # 0 /\ ce[1] <= Primary("%")

RECURSIVE Shift(_, _)
Shift(ces, after) ==
  IF ces = <<>> THEN <<>>
  ELSE IF IsVariable(Head(ces)) \/ (after /\ Head(ces)[1] = 0)
  THEN Shift(Tail(ces), TRUE)
  ELSE <<Head(ces)>> \o Shift(Tail(ces), FALSE)

\* the collation elements that count of s, the part of a string the comparison
\* looks at (what follows the prefix it skips, see SkippedPrefix)
Elements(col, s) ==
  IF Shifted(col.locale) THEN Shift(CEsFrom(col, s, 1), FALSE)
  ELSE CEsFrom(col, s, 1)

\* the weights of one level (1 primary, 2 secondary), the elements that have
\* none at that level left out
RECURSIVE Weight(_, _)
Weight(level, ces) ==
  IF ces = <<>> THEN <<>>
  ELSE (IF Head(ces)[level] = 0 THEN <<>> ELSE <<Head(ces)[level]>>)
       \o Weight(level, Tail(ces))

Reverse(s) == [k \in 1..Len(s) |-> s[Len(s) + 1 - k]]

Secondaries(loc, ces) ==
  IF Backwards(loc) THEN Reverse(Weight(2, ces)) ELSE Weight(2, ces)

\* the weights of the third level: the variant, and before it the case where
\* upper case comes first
RECURSIVE Tertiaries(_, _)
Tertiaries(loc, ces) ==
  IF ces = <<>> THEN <<>>
  ELSE (IF Head(ces)[4] = 0 THEN <<>>
        ELSE <<(IF UpperFirst(loc) THEN 100 * (3 - Head(ces)[3]) ELSE 0)
               + Head(ces)[4]>>)
       \o Tertiaries(loc, Tail(ces))

\* the comparison of two sequences of weights
RECURSIVE CompareAt(_, _), CompareHeads(_, _, _, _)
CompareAt(a, b) ==
  IF a = <<>> /\ b = <<>> THEN 0
  ELSE IF a = <<>> THEN -1
  ELSE IF b = <<>> THEN 1
  ELSE CompareHeads(a, b, Head(a), Head(b))

CompareHeads(a, b, wa, wb) ==
  IF wa < wb THEN -1
  ELSE IF wa > wb THEN 1
  ELSE CompareAt(Tail(a), Tail(b))

\* the first level at which the elements differ decides
TieBreak(upper, lower) == IF upper # 0 THEN upper ELSE lower

CompareCEs(loc, x, y) ==
  TieBreak(CompareAt(Weight(1, x), Weight(1, y)),
           TieBreak(CompareAt(Secondaries(loc, x), Secondaries(loc, y)),
                    CompareAt(Tertiaries(loc, x), Tertiaries(loc, y))))

\* The collator does not look at what the two strings start with alike: it
\* compares them from the end of their common prefix on, stepping back while
\* the character there cannot start a unit (an accent, a later character of a
\* contraction of the locale).  What a level makes of the whole string (the
\* accents of a variable character, the accents read backwards) it makes of
\* what is left.
IsUnsafeAt(s, i, unsafe) == i <= Len(s) /\ s[i] \in unsafe

\* the number of characters a and b start with alike, k of them known
RECURSIVE EqualPrefix(_, _, _)
EqualPrefix(a, b, k) ==
  IF k < Len(a) /\ k < Len(b) /\ a[k + 1] = b[k + 1]
  THEN EqualPrefix(a, b, k + 1)
  ELSE k

\* back from a prefix of k characters to one after which a unit starts
RECURSIVE BackUp(_, _, _)
BackUp(a, unsafe, k) ==
  IF k > 0 /\ IsUnsafeAt(a, k + 1, unsafe) THEN BackUp(a, unsafe, k - 1) ELSE k

\* the length of the prefix the comparison skips, a and b starting with k
\* characters alike
SkippedPrefix(a, b, unsafe, k) ==
  IF k > 0 /\ (IsUnsafeAt(a, k + 1, unsafe) \/ IsUnsafeAt(b, k + 1, unsafe))
  THEN BackUp(a, unsafe, k - 1)
  ELSE k

Rest(s, k) == SubSeq(s, k + 1, Len(s))

\* the comparison of a and b without their first k characters
CompareFrom(col, a, b, k) ==
  CompareCEs(col.locale, Elements(col, Rest(a, k)), Elements(col, Rest(b, k)))

\* the comparison of a and b by the collator col
CompareWith(col, a, b) ==
  CompareFrom(col, a, b, SkippedPrefix(a, b, col.unsafe, EqualPrefix(a, b, 0)))

\* a.localeCompare(b) on a host whose default locale is loc
CompareIn(loc, a, b) == CompareWith(Collators[loc], a, b)

localeCompare(a, b) == CompareIn(locale, a, b)

(***************************************************************************)
(* Array.prototype.sort(comparefn).  The code passes                       *)
(* (a, b) => a.localeCompare(b).  The order the call leaves is that of a   *)
(* stable sort when the comparator is a consistent one; localeCompare is   *)
(* not always (it can say a = b, b = c and c < a), and the order then      *)
(* depends on which pairs the sort compares.  The definitions follow the   *)
(* sort of V8 (ArrayTimSort): a list shorter than 64 is one run, its first *)
(* ascending or strictly descending stretch, into which the other elements *)
(* are put one by one by binary search; a longer list is cut into runs     *)
(* that are merged.  Positions and offsets count from 0 as in V8, a run is *)
(* a sequence of its own.                                                  *)
(***************************************************************************)
\* the comparator on the elements of s: cmp[<<a, b>>] is comparefn(a, b)
\* (for a list long enough to be merged the function is tabulated before
\* the sort, which keeps the evaluation of the merges shallow)
ComparatorOn(s, values) ==
  IF Len(s) < 64
  THEN [p \in values \X values |-> localeCompare(p[1], p[2])]
  ELSE Table([p \in values \X values |-> localeCompare(p[1], p[2])])

Comparator(s) == ComparatorOn(s, Range(s))

\* comparefn(x, y) < 0
Less(cmp, x, y) == cmp[<<x, y>>] < 0

Smaller(m, n) == IF m < n THEN m ELSE n

Take(s, n) == SubSeq(s, 1, n)

Front(s) == SubSeq(s, 1, Len(s) - 1)

Last(s) == s[Len(s)]

\* ComputeMinRunLength: the length below which a run is extended
RECURSIVE ComputeMinRunLength(_, _)
ComputeMinRunLength(n, r) ==
  IF n >= 64 THEN ComputeMinRunLength(n \div 2, IF n % 2 = 1 THEN 1 ELSE r)
  ELSE n + r

\* the loop of CountAndMakeRun: the run has n elements so far, and goes on
\* while the next element is less than the one before it (a descending run)
\* or is not (an ascending one)
RECURSIVE RunLength(_, _, _, _)
RunLength(cmp, s, descending, n) ==
  IF n < Len(s) /\ (Less(cmp, s[n + 1], s[n]) <=> descending)
  THEN RunLength(cmp, s, descending, n + 1)
  ELSE n

\* the search of BinaryInsertionSort: where pivot goes among s[left+1..right]
RECURSIVE InsertionPoint(_, _, _, _, _)
InsertionPoint(cmp, s, pivot, left, right) ==
  IF left < right
  THEN IF Less(cmp, pivot, s[left + (right - left) \div 2 + 1])
       THEN InsertionPoint(cmp, s, pivot, left, left + (right - left) \div 2)
       ELSE InsertionPoint(cmp, s, pivot, left + (right - left) \div 2 + 1, right)
  ELSE left

\* s with its element at position from moved to position to, to <= from
Moved(s, from, to) ==
  Take(s, to) \o <<s[from + 1]>> \o SubSeq(s, to + 1, from) \o Rest(s, from + 1)

\* BinaryInsertionSort: the first start elements of s are sorted
RECURSIVE BinaryInsertionSort(_, _, _)
BinaryInsertionSort(cmp, s, start) ==
  IF start < Len(s)
  THEN BinaryInsertionSort(cmp,
         Moved(s, start, InsertionPoint(cmp, s, s[start + 1], 0, start)),
         start + 1)
  ELSE s

\* GallopLeft asks whether x < key, GallopRight whether x <= key
Precedes(cmp, left, x, key) ==
  IF left THEN Less(cmp, x, key) ELSE ~Less(cmp, key, x)

\* the galloping loop of GallopLeft and GallopRight, to the right (dir = 1)
\* or to the left (dir = -1) of hint: the offsets <<lastOfs, offset>> from
\* the start of xs between which the binary search goes on
RECURSIVE GallopOffsets(_, _, _, _, _, _, _, _, _)
GallopOffsets(cmp, left, xs, key, hint, dir, maxOfs, lastOfs, offset) ==
  IF offset < maxOfs
     /\ (Precedes(cmp, left, xs[hint + dir * offset + 1], key) <=> dir = 1)
  THEN GallopOffsets(cmp, left, xs, key, hint, dir, maxOfs, offset,
                     2 * offset + 1)
  ELSE IF dir = 1
  THEN <<lastOfs + hint, Smaller(offset, maxOfs) + hint>>
  ELSE <<hint - Smaller(offset, maxOfs), hint - lastOfs>>

\* the binary search that ends GallopLeft and GallopRight
RECURSIVE GallopSearch(_, _, _, _, _, _)
GallopSearch(cmp, left, xs, key, lastOfs, offset) ==
  IF lastOfs < offset
  THEN IF Precedes(cmp, left, xs[lastOfs + (offset - lastOfs) \div 2 + 1], key)
       THEN GallopSearch(cmp, left, xs, key,
                         lastOfs + (offset - lastOfs) \div 2 + 1, offset)
       ELSE GallopSearch(cmp, left, xs, key, lastOfs,
                         lastOfs + (offset - lastOfs) \div 2)
  ELSE offset

GallopWithin(cmp, left, xs, key, offsets) ==
  GallopSearch(cmp, left, xs, key, offsets[1] + 1, offsets[2])

GallopFrom(cmp, left, xs, key, hint, dir) ==
  GallopWithin(cmp, left, xs, key,
    GallopOffsets(cmp, left, xs, key, hint, dir,
                  IF dir = 1 THEN Len(xs) - hint ELSE hint + 1, 0, 1))

\* GallopLeft(xs, key, 0, Len(xs), hint): how many elements of the run xs
\* come before the place of key, the leftmost place when xs has equals of key
GallopLeft(cmp, xs, key, hint) ==
  GallopFrom(cmp, TRUE, xs, key, hint,
             IF Precedes(cmp, TRUE, xs[hint + 1], key) THEN 1 ELSE -1)

\* GallopRight: the same for the rightmost place
GallopRight(cmp, xs, key, hint) ==
  GallopFrom(cmp, FALSE, xs, key, hint,
             IF Precedes(cmp, FALSE, xs[hint + 1], key) THEN 1 ELSE -1)

\* nofWinsA >= kMinGallopWins || nofWinsB >= kMinGallopWins
StillGalloping(nofWinsA, nofWinsB) == nofWinsA >= 7 \/ nofWinsB >= 7

\* SmiMax(1, minGallop - 1)
LessGallop(minGallop) == IF minGallop > 2 THEN minGallop - 1 ELSE 1

\* A merge ends with the merged run and sortState.minGallop.  In MergeLow
\* out is what the merge has written, a what is left of the copy of run A
\* and b what is left of run B; label Succeed leaves what is left where it
\* is or copies it back, label CopyB puts the last element of A at the end.
LowSucceed(out, a, b, minGallop) ==
  [list |-> out \o a \o b, minGallop |-> minGallop]

LowCopyB(out, a, b, minGallop) ==
  [list |-> out \o b \o a, minGallop |-> minGallop]

RECURSIVE LowPairs(_, _, _, _, _, _, _)
RECURSIVE LowGallop(_, _, _, _, _)

\* the second half of a round of galloping: nofWinsB elements of b are
\* copied, then one of a
LowGallopB(cmp, out, a, b, minGallop, nofWinsA, nofWinsB) ==
  IF nofWinsB > 0 /\ nofWinsB = Len(b)
  THEN LowSucceed(out \o b, a, <<>>, minGallop)
  ELSE IF Len(a) = 2
  THEN LowCopyB(out \o Take(b, nofWinsB) \o <<a[1]>>, Tail(a),
                Rest(b, nofWinsB), minGallop)
  ELSE IF StillGalloping(nofWinsA, nofWinsB)
  THEN LowGallop(cmp, out \o Take(b, nofWinsB) \o <<a[1]>>, Tail(a),
                 Rest(b, nofWinsB), minGallop)
  ELSE LowPairs(cmp, out \o Take(b, nofWinsB) \o <<a[1]>>, Tail(a),
                Rest(b, nofWinsB), minGallop + 1, 0, 0)

\* the first half: nofWinsA elements of a are copied, then one of b
LowGallopA(cmp, out, a, b, minGallop, nofWinsA) ==
  IF nofWinsA > 0 /\ Len(a) - nofWinsA = 1
  THEN LowCopyB(out \o Take(a, nofWinsA), Rest(a, nofWinsA), b, minGallop)
  ELSE IF nofWinsA > 0 /\ Len(a) = nofWinsA
  THEN LowSucceed(out \o a, <<>>, b, minGallop)
  ELSE IF Len(b) = 1
  THEN LowSucceed(out \o Take(a, nofWinsA) \o b, Rest(a, nofWinsA), <<>>,
                  minGallop)
  ELSE LowGallopB(cmp, out \o Take(a, nofWinsA) \o <<b[1]>>,
                  Rest(a, nofWinsA), Tail(b), minGallop, nofWinsA,
                  GallopLeft(cmp, Tail(b), a[nofWinsA + 1], 0))

\* a round of the galloping loop of MergeLow
LowGallop(cmp, out, a, b, minGallop) ==
  LowGallopA(cmp, out, a, b, LessGallop(minGallop),
             GallopRight(cmp, a, b[1], 0))

\* the loop of MergeLow that takes one element at a time
LowPairs(cmp, out, a, b, minGallop, nofWinsA, nofWinsB) ==
  IF Less(cmp, b[1], a[1])
  THEN IF Len(b) = 1
       THEN LowSucceed(Append(out, b[1]), a, <<>>, minGallop)
       ELSE IF nofWinsB + 1 >= minGallop
       THEN LowGallop(cmp, Append(out, b[1]), a, Tail(b), minGallop + 1)
       ELSE LowPairs(cmp, Append(out, b[1]), a, Tail(b), minGallop,
                     0, nofWinsB + 1)
  ELSE IF Len(a) = 2
       THEN LowCopyB(Append(out, a[1]), Tail(a), b, minGallop)
       ELSE IF nofWinsA + 1 >= minGallop
       THEN LowGallop(cmp, Append(out, a[1]), Tail(a), b, minGallop + 1)
       ELSE LowPairs(cmp, Append(out, a[1]), Tail(a), b, minGallop,
                     nofWinsA + 1, 0)

\* MergeLow: the runs a and b merged from the left, Len(a) <= Len(b)
MergeLow(cmp, a, b, minGallop) ==
  IF Len(b) = 1 THEN LowSucceed(b, a, <<>>, minGallop)
  ELSE IF Len(a) = 1 THEN LowCopyB(<<b[1]>>, a, Tail(b), minGallop)
  ELSE LowPairs(cmp, <<b[1]>>, a, Tail(b), minGallop, 0, 0)

\* In MergeHigh out is what the merge has written, from the right, a what
\* is left of run A and b what is left of the copy of run B; label CopyA
\* puts the first element of B at the front.
HighSucceed(a, b, out, minGallop) ==
  [list |-> a \o b \o out, minGallop |-> minGallop]

HighCopyA(a, b, out, minGallop) ==
  [list |-> b \o a \o out, minGallop |-> minGallop]

RECURSIVE HighPairs(_, _, _, _, _, _, _)
RECURSIVE HighGallop(_, _, _, _, _)

\* the second half of a round of galloping: all of b but its first k
\* elements is copied, then one element of a
HighGallopB(cmp, a, b, out, minGallop, nofWinsA, k) ==
  IF Len(b) - k > 0 /\ k = 1
  THEN HighCopyA(a, Take(b, 1), Rest(b, 1) \o out, minGallop)
  ELSE IF Len(b) - k > 0 /\ k = 0
  THEN HighSucceed(a, <<>>, b \o out, minGallop)
  ELSE IF Len(a) = 1
  THEN HighSucceed(<<>>, Take(b, k), a \o Rest(b, k) \o out, minGallop)
  ELSE IF StillGalloping(nofWinsA, Len(b) - k)
  THEN HighGallop(cmp, Front(a), Take(b, k),
                  <<Last(a)>> \o Rest(b, k) \o out, minGallop)
  ELSE HighPairs(cmp, Front(a), Take(b, k),
                 <<Last(a)>> \o Rest(b, k) \o out, minGallop + 1, 0, 0)

\* the first half: all of a but its first k elements is copied, then one
\* element of b
HighGallopA(cmp, a, b, out, minGallop, k) ==
  IF Len(a) - k > 0 /\ k = 0
  THEN HighSucceed(<<>>, b, a \o out, minGallop)
  ELSE IF Len(b) = 2
  THEN HighCopyA(Take(a, k), Front(b), <<Last(b)>> \o Rest(a, k) \o out,
                 minGallop)
  ELSE HighGallopB(cmp, Take(a, k), Front(b),
                   <<Last(b)>> \o Rest(a, k) \o out, minGallop, Len(a) - k,
                   GallopLeft(cmp, Front(b), a[k], Len(b) - 2))

\* a round of the galloping loop of MergeHigh
HighGallop(cmp, a, b, out, minGallop) ==
  HighGallopA(cmp, a, b, out, LessGallop(minGallop),
              GallopRight(cmp, a, Last(b), Len(a) - 1))

\* the loop of MergeHigh that takes one element at a time
HighPairs(cmp, a, b, out, minGallop, nofWinsA, nofWinsB) ==
  IF Less(cmp, Last(b), Last(a))
  THEN IF Len(a) = 1
       THEN HighSucceed(<<>>, b, a \o out, minGallop)
       ELSE IF nofWinsA + 1 >= minGallop
       THEN HighGallop(cmp, Front(a), b, <<Last(a)>> \o out, minGallop + 1)
       ELSE HighPairs(cmp, Front(a), b, <<Last(a)>> \o out, minGallop,
                      nofWinsA + 1, 0)
  ELSE IF Len(b) = 2
       THEN HighCopyA(a, Front(b), <<Last(b)>> \o out, minGallop)
       ELSE IF nofWinsB + 1 >= minGallop
       THEN HighGallop(cmp, a, Front(b), <<Last(b)>> \o out, minGallop + 1)
       ELSE HighPairs(cmp, a, Front(b), <<Last(b)>> \o out, minGallop,
                      0, nofWinsB + 1)

\* MergeHigh: the runs a and b merged from the right, Len(a) > Len(b)
MergeHigh(cmp, a, b, minGallop) ==
  IF Len(a) = 1 THEN HighSucceed(<<>>, b, a, minGallop)
  ELSE IF Len(b) = 1 THEN HighCopyA(Front(a), b, <<Last(a)>>, minGallop)
  ELSE HighPairs(cmp, Front(a), b, <<Last(a)>>, minGallop, 0, 0)

\* the end of MergeAt: the elements of a that are in place already (the
\* first k) and those of b that are (all but the first n) stay out of the
\* merge
MergeTrimmed(cmp, a, b, minGallop, k, n) ==
  IF n = 0 THEN [list |-> a \o b, minGallop |-> minGallop]
  ELSE IF Len(a) - k <= n
  THEN LowSucceed(Take(a, k),
                  MergeLow(cmp, Rest(a, k), Take(b, n), minGallop).list,
                  Rest(b, n),
                  MergeLow(cmp, Rest(a, k), Take(b, n), minGallop).minGallop)
  ELSE LowSucceed(Take(a, k),
                  MergeHigh(cmp, Rest(a, k), Take(b, n), minGallop).list,
                  Rest(b, n),
                  MergeHigh(cmp, Rest(a, k), Take(b, n), minGallop).minGallop)

MergeFrom(cmp, a, b, minGallop, k) ==
  IF k = Len(a) THEN [list |-> a \o b, minGallop |-> minGallop]
  ELSE MergeTrimmed(cmp, a, b, minGallop, k,
                    GallopLeft(cmp, b, Last(a), Len(b) - 1))

\* the runs a and b, one after the other in the list, merged
MergeRuns(cmp, a, b, minGallop) ==
  MergeFrom(cmp, a, b, minGallop, GallopRight(cmp, a, b[1], 0))

\* The state of the sort: the list, the lengths of the pending runs (they
\* follow one another from the start of the list) and minGallop
RECURSIVE Sum(_)
Sum(lengths) == IF lengths = <<>> THEN 0 ELSE Head(lengths) + Sum(Tail(lengths))

\* the state after the merge of the runs a and b that start at base
Merged(st, n, base, a, b, m) ==
  [work |-> Take(st.work, base) \o m.list \o Rest(st.work, base + Len(a) + Len(b)),
   runs |-> Take(st.runs, n) \o <<Len(a) + Len(b)>> \o Rest(st.runs, n + 2),
   minGallop |-> m.minGallop]

MergeAtBase(cmp, st, n, base, a, b) ==
  Merged(st, n, base, a, b, MergeRuns(cmp, a, b, st.minGallop))

\* MergeAt(n): the pending runs n and n + 1 merged
MergeAt(cmp, st, n) ==
  MergeAtBase(cmp, st, n, Sum(Take(st.runs, n)),
    SubSeq(st.work, Sum(Take(st.runs, n)) + 1, Sum(Take(st.runs, n + 1))),
    SubSeq(st.work, Sum(Take(st.runs, n + 1)) + 1, Sum(Take(st.runs, n + 2))))

\* RunInvariantEstablished(pendingRuns, n)
RunInvariantEstablished(runs, n) ==
  n < 2 \/ runs[n - 1] > runs[n] + runs[n + 1]

\* MergeCollapse, n being the number of pending runs less 2
RECURSIVE MergeCollapse(_, _)
MergeCollapse(cmp, st) ==
  IF Len(st.runs) < 2 THEN st
  ELSE IF ~RunInvariantEstablished(st.runs, Len(st.runs) - 1)
          \/ ~RunInvariantEstablished(st.runs, Len(st.runs) - 2)
  THEN MergeCollapse(cmp, MergeAt(cmp, st,
         IF st.runs[Len(st.runs) - 2] < st.runs[Len(st.runs)]
         THEN Len(st.runs) - 3 ELSE Len(st.runs) - 2))
  ELSE IF st.runs[Len(st.runs) - 1] <= st.runs[Len(st.runs)]
  THEN MergeCollapse(cmp, MergeAt(cmp, st, Len(st.runs) - 2))
  ELSE st

\* MergeForceCollapse
RECURSIVE MergeForceCollapse(_, _)
MergeForceCollapse(cmp, st) ==
  IF Len(st.runs) < 2 THEN st
  ELSE MergeForceCollapse(cmp, MergeAt(cmp, st,
         IF Len(st.runs) > 2 /\ st.runs[Len(st.runs) - 2] < st.runs[Len(st.runs)]
         THEN Len(st.runs) - 3 ELSE Len(st.runs) - 2))

\* CountAndMakeRun and what follows it in the loop of ArrayTimSortImpl: the
\* run that starts rest has n elements, is reversed when it is descending
\* and is extended to length elements by BinaryInsertionSort
MadeRun(cmp, rest, descending, n, length) ==
  BinaryInsertionSort(cmp,
    IF descending THEN Reverse(Take(rest, n)) \o SubSeq(rest, n + 1, length)
    ELSE Take(rest, length),
    n)

RunOf(cmp, rest, descending, n, minRunLength) ==
  MadeRun(cmp, rest, descending, n,
          IF n < minRunLength THEN Smaller(minRunLength, Len(rest)) ELSE n)

\* the next run of the list, rest being what no run has yet
NextRun(cmp, rest, descending, minRunLength) ==
  RunOf(cmp, rest, descending,
        IF Len(rest) = 1 THEN 1 ELSE RunLength(cmp, rest, descending, 2),
        minRunLength)

PushRun(st, low, run) ==
  [work |-> Take(st.work, low) \o run \o Rest(st.work, low + Len(run)),
   runs |-> Append(st.runs, Len(run)),
   minGallop |-> st.minGallop]

\* the loop of ArrayTimSortImpl
RECURSIVE SortRuns(_, _, _)
SortRuns(cmp, st, minRunLength) ==
  IF Sum(st.runs) = Len(st.work) THEN MergeForceCollapse(cmp, st).work
  ELSE SortRuns(cmp,
         MergeCollapse(cmp,
           PushRun(st, Sum(st.runs),
             NextRun(cmp, Rest(st.work, Sum(st.runs)),
                     Len(st.work) - Sum(st.runs) > 1
                       /\ Less(cmp, st.work[Sum(st.runs) + 2],
                                    st.work[Sum(st.runs) + 1]),
                     minRunLength))),
         minRunLength)

ArrayTimSort(s, cmp) ==
  IF Len(s) < 2 THEN s
  ELSE SortRuns(cmp, [work |-> s, runs |-> <<>>, minGallop |-> 7],
                ComputeMinRunLength(Len(s), 0))

\* Array.from(set).sort((a, b) => a.localeCompare(b))
sortLocale(s) == ArrayTimSort(s, Comparator(s))

\* A JavaScript Set<string> is the sequence of its elements in insertion order
SetAdd(set, x) == IF x \in Range(set) THEN set ELSE Append(set, x)

RECURSIVE SetAddAll(_, _)
SetAddAll(set, xs) ==
  IF xs = <<>> THEN set ELSE SetAddAll(SetAdd(set, Head(xs)), Tail(xs))

(***************************************************************************)
(* Normalizer and Dedupe/Sort                                              *)
(***************************************************************************)
\* s.replace(/^@/, '')
StripAt(s) == IF s # <<>> /\ Head(s) = "@" THEN Tail(s) ELSE s

\* username.trim().replace(/^@/, '').toLowerCase()
normalizeUsername(username) == toLowerCase(StripAt(trim(username)))

\* if (nu) set.add(nu)
AddIfNonEmpty(set, nu) == IF nu # <<>> THEN SetAdd(set, nu) ELSE set

\* the loop of uniqueSorted
RECURSIVE NormalizedSet(_, _)
NormalizedSet(set, usernames) ==
  IF usernames = <<>> THEN set
  ELSE NormalizedSet(AddIfNonEmpty(set, normalizeUsername(Head(usernames))),
                     Tail(usernames))

uniqueSorted(usernames) == sortLocale(NormalizedSet(<<>>, usernames))

(***************************************************************************)
(* Decoded JSON values (the `unknown` the parser receives): a tagged       *)
(* record; an object is the sequence of its <<key, value>> entries in      *)
(* Object.entries order, its keys distinct.                                *)
(***************************************************************************)
JNull == [t |-> "null"]
JUndefined == [t |-> "undefined"]
JNum(n) == [t |-> "num", v |-> n]
JStr(s) == [t |-> "str", v |-> s]
JArr(xs) == [t |-> "arr", v |-> xs]
JObj(kvs) == [t |-> "obj", v |-> kvs]

K_relationships_ == <<"r","e","l","a","t","i","o","n","s","h","i","p","s","_">>
K_followers == <<"f","o","l","l","o","w","e","r","s">>
K_following == <<"f","o","l","l","o","w","i","n","g">>
K_relationships_followers == K_relationships_ \o K_followers
K_relationships_following == K_relationships_ \o K_following
K_string_list_data == <<"s","t","r","i","n","g","_","l","i","s","t","_","d","a","t","a">>
K_value == <<"v","a","l","u","e">>
K_title == <<"t","i","t","l","e">>
K_href == <<"h","r","e","f">>

\* typeof value === 'object' && value !== null
isRecord(value) == value.t \in {"obj", "arr"}

isArray(value) == value.t = "arr"

\* value[key]: the property of an object; an array has none of the keys used here
RECURSIVE Lookup(_, _)
Lookup(kvs, key) ==
  IF kvs = <<>> THEN JUndefined
  ELSE IF Head(kvs)[1] = key THEN Head(kvs)[2]
  ELSE Lookup(Tail(kvs), key)

Get(value, key) == IF value.t = "obj" THEN Lookup(value.v, key) ELSE JUndefined

toStringOrNull(value) == IF value.t = "str" THEN value ELSE JNull

\* the truthiness of a `string | null`
Truthy(x) == x.t = "str" /\ x.v # <<>>

\* a || b on `string | null`
OrElse(a, b) == IF Truthy(a) THEN a ELSE b

(***************************************************************************)
(* Regular expressions                                                     *)
(***************************************************************************)
UserMax == 30

\* the end of the greedy match of [a-zA-Z0-9._]{1,max} starting at position i
\* (i - 1 when no character matches)
RECURSIVE UserRunEnd(_, _, _)
UserRunEnd(s, i, max) ==
  IF max > 0 /\ i <= Len(s) /\ IsUserChar(s[i])
  THEN UserRunEnd(s, i + 1, max - 1)
  ELSE i - 1

L_instagram_com == <<"i","n","s","t","a","g","r","a","m",".","c","o","m","/">>
L_u == <<"_","u","/">>

\* the capture of [a-zA-Z0-9._]{1,30} starting at position b
UserCapture(s, b) == JStr(SubSeq(s, b, UserRunEnd(s, b, UserMax)))

\* the least element of a set of positions, none when the set is empty
Least(ps, none) ==
  IF ps = {} THEN none ELSE CHOOSE p \in ps : \A q \in ps : p <= q

\* the positions at which  lit[a-zA-Z0-9._]  matches
LitUserPositions(s, lit) ==
  {p \in 1..(Len(s) - Len(lit)) :
     HasPrefixAt(s, p, lit) /\ IsUserChar(s[p + Len(lit)])}

\* the capture of the match at position p, null when p = 0
LitUserCaptureAt(s, lit, p) ==
  IF p = 0 THEN JNull ELSE UserCapture(s, p + Len(lit))

\* s.match(/lit([a-zA-Z0-9._]{1,30})\/?/)?.[1], or null: the leftmost match
LitUserCapture(s, lit) ==
  LitUserCaptureAt(s, lit, Least(LitUserPositions(s, lit), 0))

(***************************************************************************)
(* Entry Extractor                                                         *)
(***************************************************************************)
extractUsernameFromHref(href) ==
  OrElse(LitUserCapture(href, L_instagram_com \o L_u),
         LitUserCapture(href, L_instagram_com))

\* the first loop: the `value` of the first item that is a record with a non-empty
\* string `value`
RECURSIVE FirstValue(_), FirstValueOr(_, _)
FirstValue(sld) ==
  IF sld = <<>> THEN JNull
  ELSE IF ~isRecord(Head(sld)) THEN FirstValue(Tail(sld))
  ELSE FirstValueOr(toStringOrNull(Get(Head(sld), K_value)), Tail(sld))

FirstValueOr(value, rest) == IF Truthy(value) THEN value ELSE FirstValue(rest)

\* the second loop: the username of the first item whose `href` yields one
RECURSIVE FirstHref(_), FirstHrefOr(_, _), FirstHrefFound(_, _)
FirstHref(sld) ==
  IF sld = <<>> THEN JNull
  ELSE IF ~isRecord(Head(sld)) THEN FirstHref(Tail(sld))
  ELSE FirstHrefOr(toStringOrNull(Get(Head(sld), K_href)), Tail(sld))

\* the second loop returning the href itself, no username looked for in it
FirstHrefOrRaw(href, rest) ==
  IF ~Truthy(href) THEN FirstHref(rest) ELSE href

FirstHrefOr(href, rest) ==
  IF ~Truthy(href) THEN FirstHref(rest)
  ELSE FirstHrefFound(extractUsernameFromHref(href.v), rest)

FirstHrefFound(fromHref, rest) ==
  IF Truthy(fromHref) THEN fromHref ELSE FirstHref(rest)

\* the entry extractor once `sld = entry['string_list_data']` is read
ExtractWithSld(entry, sld) ==
  IF ~isArray(sld) THEN JNull
  ELSE OrElse(FirstValue(sld.v),
              OrElse(toStringOrNull(Get(entry, K_title)), FirstHref(sld.v)))

extractUsernameFromRelationshipEntry(entry) ==
  IF ~isRecord(entry) THEN JNull
  ELSE ExtractWithSld(entry, Get(entry, K_string_list_data))

(***************************************************************************)
(* Structured-Data Parser                                                  *)
(***************************************************************************)
\* array.map(extractUsernameFromRelationshipEntry).filter(Boolean)
RECURSIVE ExtractAll(_), ExtractAllCons(_, _)
ExtractAll(entries) ==
  IF entries = <<>> THEN <<>>
  ELSE ExtractAllCons(extractUsernameFromRelationshipEntry(Head(entries)),
                      Tail(entries))

ExtractAllCons(u, rest) ==
  (IF Truthy(u) THEN <<u.v>> ELSE <<>>) \o ExtractAll(rest)

W_followersEmpty == <<"Se detecto followers, pero no se pudieron extraer usernames.">>
W_followingEmpty == <<"Se detecto following, pero no se pudieron extraer usernames.">>
W_nonStandard(key) == <<"Formato no estandar: se extrajo desde", key>>
W_arrayEmpty == <<"El JSON es un array, pero no se pudieron extraer usernames.">>
W_unrecognized == <<"Formato de JSON no reconocido para seguidores/seguidos.">>

ParseResult(kind, usernames, ws) ==
  [kind |-> kind, usernames |-> usernames, warnings |-> ws]

\* the result for the chosen array of a standard field, or of a top-level array
StandardResult(kind, usernames, emptyWarning) ==
  ParseResult(kind, uniqueSorted(usernames),
              IF Len(usernames) = 0 THEN <<emptyWarning>> ELSE <<>>)

\* the loop over Object.entries(json) from entry i on: the first relationships_*
\* array that yields a username, 0 when there is none
RECURSIVE FirstUsableField(_, _)
FirstUsableField(kvs, i) ==
  IF i > Len(kvs) THEN 0
  ELSE IF /\ startsWith(kvs[i][1], K_relationships_)
          /\ isArray(kvs[i][2])
          /\ Len(ExtractAll(kvs[i][2].v)) > 0
  THEN i
  ELSE FirstUsableField(kvs, i + 1)

\* the statements after the `if (isRecord(json))` block
ParseArrayOrUnknown(json) ==
  IF isArray(json)
  THEN StandardResult("unknown", ExtractAll(json.v), W_arrayEmpty)
  ELSE ParseResult("unknown", <<>>, <<W_unrecognized>>)

\* the loop over the other relationships_* fields, i its result
ParseOtherField(json, i) ==
  IF i # 0
  THEN ParseResult("unknown", uniqueSorted(ExtractAll(json.v[i][2].v)),
                   <<W_nonStandard(json.v[i][1])>>)
  ELSE ParseArrayOrUnknown(json)

\* the `if (isRecord(json))` block testing relationships_following first
ParseRecordFollowingFirst(json, followersField, followingField) ==
  IF isArray(followingField)
  THEN StandardResult("following", ExtractAll(followingField.v), W_followingEmpty)
  ELSE IF isArray(followersField)
  THEN StandardResult("followers", ExtractAll(followersField.v), W_followersEmpty)
  ELSE ParseOtherField(json, IF json.t = "obj" THEN FirstUsableField(json.v, 1) ELSE 0)

\* the `if (isRecord(json))` block, followersField and followingField the two
\* standard fields (the keys of an array are its indices)
ParseRecord(json, followersField, followingField) ==
  IF isArray(followersField)
  THEN StandardResult("followers", ExtractAll(followersField.v), W_followersEmpty)
  ELSE IF isArray(followingField)
  THEN StandardResult("following", ExtractAll(followingField.v), W_followingEmpty)
  ELSE ParseOtherField(json, IF json.t = "obj" THEN FirstUsableField(json.v, 1) ELSE 0)

parseInstagramRelationshipJson(json) ==
  IF isRecord(json)
  THEN ParseRecord(json, Get(json, K_relationships_followers),
                   Get(json, K_relationships_following))
  ELSE ParseArrayOrUnknown(json)

(***************************************************************************)
(* Markup Parser (src/lib/instagramExportHtml.ts)                          *)
(***************************************************************************)
ValueMax == 64

L_http == <<"h","t","t","p">>
L_scheme == <<":","/","/">>
L_www == <<"w","w","w",".">>
L_value == <<"\"","v","a","l","u","e","\"">>

\* a match of a regular expression: its capture and the position of its last
\* character
NoMatch == [ok |-> FALSE, cap |-> <<>>, end |-> 0]
Match(cap, end) == [ok |-> TRUE, cap |-> cap, end |-> end]

\* the position after an optional lit at position p
SkipOpt(s, p, lit) == IF HasPrefixAt(s, p, lit) THEN p + Len(lit) ELSE p

\* ([a-zA-Z0-9._]{1,30})\/? at position b, e the end of the greedy capture
UserSlashMatch(s, b, e) ==
  IF e >= b THEN Match(SubSeq(s, b, e), SkipOpt(s, e + 1, <<"/">>) - 1) ELSE NoMatch

\* instagram\.com\/([a-zA-Z0-9._]{1,30})\/? at position d
UrlHostAt(s, d) ==
  IF HasPrefixAt(s, d, L_instagram_com)
  THEN UserSlashMatch(s, d + Len(L_instagram_com),
                      UserRunEnd(s, d + Len(L_instagram_com), UserMax))
  ELSE NoMatch

\* :\/\/(?:www\.)?instagram\.com\/... at position b
UrlSchemeAt(s, b) ==
  IF HasPrefixAt(s, b, L_scheme)
  THEN UrlHostAt(s, SkipOpt(s, b + Len(L_scheme), L_www))
  ELSE NoMatch

\* /https?:\/\/(?:www\.)?instagram\.com\/([a-zA-Z0-9._]{1,30})\/?/ at position p
UrlAt(s, p) ==
  IF HasPrefixAt(s, p, L_http)
  THEN UrlSchemeAt(s, SkipOpt(s, p + Len(L_http), <<"s">>))
  ELSE NoMatch

\* ([a-zA-Z0-9._]{1,30}) at position b, e the end of the greedy capture
UserMatch(s, b, e) == IF e >= b THEN Match(SubSeq(s, b, e), e) ELSE NoMatch

\* /@([a-zA-Z0-9._]{1,30})/ at position p
AtAt(s, p) ==
  IF HasPrefixAt(s, p, <<"@">>)
  THEN UserMatch(s, p + 1, UserRunEnd(s, p + 1, UserMax))
  ELSE NoMatch

\* the position after the spaces that start at position i
SkipSpaces(s, i) == Least({p \in i..Len(s) : ~IsSpace(s[p])}, Len(s) + 1)

\* the end of the run of characters other than '"' starting at position i
NonQuoteRunEnd(s, i) == Least({p \in i..Len(s) : s[p] = "\""}, Len(s) + 1) - 1

\* ([^"]{1,64})" at position b, e the end of the run of characters other than '"'
ValueBodyMatch(s, b, e) ==
  IF e >= b /\ e - b + 1 <= ValueMax /\ e + 1 <= Len(s)
  THEN Match(SubSeq(s, b, e), e + 1)
  ELSE NoMatch

\* "([^"]{1,64})" at position b
ValueQuoteAt(s, b) ==
  IF b <= Len(s) /\ s[b] = "\""
  THEN ValueBodyMatch(s, b + 1, NonQuoteRunEnd(s, b + 1))
  ELSE NoMatch

\* :\s*"([^"]{1,64})" at position a
ValueColonAt(s, a) ==
  IF a <= Len(s) /\ s[a] = ":"
  THEN ValueQuoteAt(s, SkipSpaces(s, a + 1))
  ELSE NoMatch

\* /"value"\s*:\s*"([^"]{1,64})"/ at position p
ValueAt(s, p) ==
  IF HasPrefixAt(s, p, L_value)
  THEN ValueColonAt(s, SkipSpaces(s, p + Len(L_value)))
  ELSE NoMatch

\* the match at position p of the expression named re
ReAt(re, s, p) ==
  CASE re = "urlRe" -> UrlAt(s, p)
    [] re = "atRe" -> AtAt(s, p)
    [] re = "valueRe" -> ValueAt(s, p)

\* the captures of s.matchAll(re) from position `from` on: the matches are taken
\* left to right, each search resuming where the previous match ended
RECURSIVE MatchAll(_, _, _), MatchAllAt(_, _, _), MatchAllTake(_, _, _)
MatchAll(re, s, from) ==
  MatchAllAt(re, s, Least({p \in from..Len(s) : ReAt(re, s, p).ok}, 0))

MatchAllAt(re, s, p) ==
  IF p = 0 THEN <<>> ELSE MatchAllTake(re, s, ReAt(re, s, p))

MatchAllTake(re, s, m) == <<m.cap>> \o MatchAll(re, s, m.end + 1)

\* the capture that starts at position p, null when p = 0
TextCaptureAt(text, p) == IF p = 0 THEN JNull ELSE UserCapture(text, p)

\* text.match(/@?([a-zA-Z0-9._]{1,30})/)?.[1]: the first run of username characters
TextCapture(text) ==
  TextCaptureAt(text, Least({p \in 1..Len(text) : IsUserChar(text[p])}, 0))

\* new DOMParser().parseFromString(htmlText, 'text/html').querySelectorAll('a'):
\* the <a> elements of the document, in tree order, each with its href
\* attribute ('' when it has none) and its text content.  The document is the
\* one the HTML parsing algorithm builds (HTML Standard, 13.2): the tokenizer
\* with its states for comments, attributes and the elements that hold text
\* only, and the tree construction of "in body" with the stack of open elements
\* and the list of active formatting elements.  The parts of the algorithm the
\* model does not have are named by UnmodelledNames, OtherReference and
\* AdoptionCase: a text that uses one has no value here, and no text of the
\* model does.
Anchor(href, text) == [href |-> href, text |-> text]

Unmodelled == "unmodelled"

\* ASCII white space, the carriage return excepted: the input stream has none
HtmlSpaces == {"\t", "\n", "\f", " "}
IsHtmlSpace(c) == c \in HtmlSpaces
IsLetter(c) == c \in Lowers \cup Uppers

\* the tokenizer lower-cases the ASCII letters of the names
AsciiLower(s) ==
  [k \in 1..Len(s) |-> IF s[k] \in Uppers THEN ToLowerChar(s[k]) ELSE s[k]]

Greatest(ps, none) ==
  IF ps = {} THEN none ELSE CHOOSE p \in ps : \A q \in ps : q <= p

\* the position of the next character of cs from position i on, Len(s) + 1
\* when there is none
NextIn(s, i, cs) == Least({q \in i..Len(s) : s[q] \in cs}, Len(s) + 1)

\* the position of the next character that is not white space
HtmlSkip(s, i) == Least({q \in i..Len(s) : ~IsHtmlSpace(s[q])}, Len(s) + 1)

\* preprocessing of the input stream: CR LF and CR become LF
RECURSIVE NewLinesFrom(_, _), NewLinesAt(_, _, _)
NewLinesFrom(s, i) == NewLinesAt(s, i, NextIn(s, i, {"\r"}))

NewLinesAt(s, i, r) ==
  IF r > Len(s) THEN SubSeq(s, i, Len(s))
  ELSE SubSeq(s, i, r - 1) \o <<"\n">>
       \o NewLinesFrom(s, IF HasPrefixAt(s, r + 1, <<"\n">>) THEN r + 2 ELSE r + 1)

NewLines(s) == NewLinesFrom(s, 1)

\* the character references the model decodes: &amp; &lt; &gt; &quot; &apos;
RefNames ==
  <<<<"a", "m", "p", ";">>, <<"l", "t", ";">>, <<"g", "t", ";">>,
    <<"q", "u", "o", "t", ";">>, <<"a", "p", "o", "s", ";">>>>
RefChars == <<"&", "<", ">", "\"", "'">>

\* the reference that starts at position p: its index in RefNames, 0 when none
RefAt(s, p) ==
  IF s[p] = "&"
  THEN Least({k \in 1..Len(RefNames) : HasPrefixAt(s, p + 1, RefNames[k])}, 0)
  ELSE 0

\* another named reference, or a numeric one, may start at position p
OtherReference(s, p) ==
  /\ s[p] = "&"
  /\ RefAt(s, p) = 0
  /\ p + 1 <= Len(s)
  /\ \/ IsLetter(s[p + 1])
     \/ s[p + 1] = "#" /\ p + 2 <= Len(s) /\ s[p + 2] \in Digits \cup {"x", "X"}

RefsModelled(s) == \A p \in 1..Len(s) : ~OtherReference(s, p)

RECURSIVE DecodeFrom(_, _), DecodeAt(_, _, _)
DecodeFrom(s, i) ==
  DecodeAt(s, i, Least({p \in i..Len(s) : RefAt(s, p) # 0}, 0))

DecodeAt(s, i, p) ==
  IF p = 0 THEN SubSeq(s, i, Len(s))
  ELSE SubSeq(s, i, p - 1) \o <<RefChars[RefAt(s, p)]>>
       \o DecodeFrom(s, p + 1 + Len(RefNames[RefAt(s, p)]))

Decode(s) == DecodeFrom(s, 1)

\* a tag: the position after its ">" (0 when the text ends inside the tag, and
\* the tag is dropped) and its attributes <<name, value>>, the first of each name
Tag(end, attrs) == [end |-> end, attrs |-> attrs]

AddAttr(attrs, name, value) ==
  IF \E k \in 1..Len(attrs) : attrs[k][1] = name THEN attrs
  ELSE Append(attrs, <<name, value>>)

\* the attributes from position j on, the tokenizer in the "before attribute
\* name" state: k is the next character that is not white space, e the end of
\* the attribute's name, m what follows the name and v the start of the value
RECURSIVE AttrsFrom(_, _, _), AttrsAt(_, _, _), AttrAfterName(_, _, _, _),
          AttrValue(_, _, _, _), AttrEnds(_, _, _, _, _, _)
AttrsFrom(s, j, attrs) == AttrsAt(s, HtmlSkip(s, j), attrs)

AttrsAt(s, k, attrs) ==
  IF k > Len(s) THEN Tag(0, attrs)
  ELSE IF s[k] = ">" THEN Tag(k + 1, attrs)
  ELSE IF s[k] = "/"
  THEN (IF k + 1 > Len(s) THEN Tag(0, attrs)
        ELSE IF s[k + 1] = ">" THEN Tag(k + 2, attrs)
        ELSE AttrsFrom(s, k + 1, attrs))
  ELSE AttrAfterName(s, AsciiLower(SubSeq(s, k,
                          NextIn(s, k + 1, HtmlSpaces \cup {"/", ">", "="}) - 1)),
                     HtmlSkip(s, NextIn(s, k + 1, HtmlSpaces \cup {"/", ">", "="})),
                     attrs)

AttrAfterName(s, name, m, attrs) ==
  IF m > Len(s) THEN Tag(0, attrs)
  ELSE IF s[m] = "=" THEN AttrValue(s, name, HtmlSkip(s, m + 1), attrs)
  ELSE AttrsAt(s, m, AddAttr(attrs, name, <<>>))

AttrValue(s, name, v, attrs) ==
  IF v > Len(s) THEN Tag(0, attrs)
  ELSE IF s[v] \in {"\"", "'"}
  THEN AttrEnds(s, name, v + 1, NextIn(s, v + 1, {s[v]}), 1, attrs)
  ELSE IF s[v] = ">" THEN Tag(v + 1, AddAttr(attrs, name, <<>>))
  ELSE AttrEnds(s, name, v, NextIn(s, v, HtmlSpaces \cup {">"}), 0, attrs)

\* the value spans positions v..(q - 1); skip is 1 when a quote ends it
AttrEnds(s, name, v, q, skip, attrs) ==
  IF q > Len(s) THEN Tag(0, attrs)
  ELSE AttrsFrom(s, q + skip, AddAttr(attrs, name, SubSeq(s, v, q - 1)))

\* the value of the href attribute, '' when there is none
RECURSIVE HrefOf(_)
HrefOf(attrs) ==
  IF attrs = <<>> THEN <<>>
  ELSE IF Head(attrs)[1] = K_href THEN Decode(Head(attrs)[2])
  ELSE HrefOf(Tail(attrs))

\* the attributes as a set, for the comparison of two elements
AttrSet(attrs) == {<<attrs[k][1], Decode(attrs[k][2])>> : k \in 1..Len(attrs)}

\* the position after the comment whose data starts at position d
CommentClose(s, p) ==
  IF p = 0 THEN Len(s) + 1
  ELSE IF HasPrefixAt(s, p, <<"-", "-", ">">>) THEN p + 3
  ELSE p + 4

CommentEnd(s, d) ==
  IF HasPrefixAt(s, d, <<">">>) THEN d + 1
  ELSE IF HasPrefixAt(s, d, <<"-", ">">>) THEN d + 2
  ELSE CommentClose(s, Least({p \in d..Len(s) :
                                \/ HasPrefixAt(s, p, <<"-", "-", ">">>)
                                \/ HasPrefixAt(s, p, <<"-", "-", "!", ">">>)}, 0))

\* markup starts at position p: a tag, a comment or a declaration.  Any other
\* "<" is a character of the text.
IsMarkupAt(s, p) ==
  /\ s[p] = "<"
  /\ p + 1 <= Len(s)
  /\ \/ IsLetter(s[p + 1])
     \/ s[p + 1] \in {"!", "?"}
     \/ s[p + 1] = "/" /\ p + 2 <= Len(s)

\* the end tag of the element `name`, which holds text only, starts at p
IsRawEnd(s, p, name) ==
  /\ HasPrefixAt(s, p, <<"<", "/">>)
  /\ p + 2 + Len(name) <= Len(s)
  /\ AsciiLower(SubSeq(s, p + 2, p + 1 + Len(name))) = name
  /\ s[p + 2 + Len(name)] \in HtmlSpaces \cup {"/", ">"}

(***************************************************************************)
(* Tree construction.  The names of the elements the algorithm treats      *)
(* apart:                                                                  *)
(***************************************************************************)
N_a == <<"a">>
N_p == <<"p">>
N_li == <<"l", "i">>
N_dd == <<"d", "d">>
N_dt == <<"d", "t">>
N_ol == <<"o", "l">>
N_ul == <<"u", "l">>
N_address == <<"a", "d", "d", "r", "e", "s", "s">>
N_div == <<"d", "i", "v">>
N_pre == <<"p", "r", "e">>
N_listing == <<"l", "i", "s", "t", "i", "n", "g">>
N_plaintext == <<"p", "l", "a", "i", "n", "t", "e", "x", "t">>
N_hr == <<"h", "r">>
N_br == <<"b", "r">>
N_textarea == <<"t", "e", "x", "t", "a", "r", "e", "a">>
N_xmp == <<"x", "m", "p">>
N_script == <<"s", "c", "r", "i", "p", "t">>
N_nobr == <<"n", "o", "b", "r">>
N_body == <<"b", "o", "d", "y">>
N_html == <<"h", "t", "m", "l">>

RcdataNames ==
  {<<"t", "e", "x", "t", "a", "r", "e", "a">>, <<"t", "i", "t", "l", "e">>}

RawtextNames ==
  {<<"i", "f", "r", "a", "m", "e">>, <<"n", "o", "e", "m", "b", "e", "d">>,
   <<"n", "o", "f", "r", "a", "m", "e", "s">>, <<"s", "t", "y", "l", "e">>,
   <<"x", "m", "p">>}

BlockNames ==
  {<<"a", "d", "d", "r", "e", "s", "s">>,
   <<"a", "r", "t", "i", "c", "l", "e">>, <<"a", "s", "i", "d", "e">>,
   <<"b", "l", "o", "c", "k", "q", "u", "o", "t", "e">>,
   <<"c", "e", "n", "t", "e", "r">>, <<"d", "e", "t", "a", "i", "l", "s">>,
   <<"d", "i", "r">>, <<"d", "i", "v">>, <<"d", "l">>,
   <<"f", "i", "e", "l", "d", "s", "e", "t">>,
   <<"f", "i", "g", "c", "a", "p", "t", "i", "o", "n">>,
   <<"f", "i", "g", "u", "r", "e">>, <<"f", "o", "o", "t", "e", "r">>,
   <<"h", "e", "a", "d", "e", "r">>, <<"h", "g", "r", "o", "u", "p">>,
   <<"m", "a", "i", "n">>, <<"m", "e", "n", "u">>, <<"n", "a", "v">>,
   <<"o", "l">>, <<"p">>, <<"s", "e", "c", "t", "i", "o", "n">>,
   <<"s", "u", "m", "m", "a", "r", "y">>, <<"u", "l">>}

HeadingNames ==
  {<<"h", "1">>, <<"h", "2">>, <<"h", "3">>, <<"h", "4">>, <<"h", "5">>,
   <<"h", "6">>}

FormattingNames ==
  {<<"a">>, <<"b">>, <<"b", "i", "g">>, <<"c", "o", "d", "e">>, <<"e", "m">>,
   <<"f", "o", "n", "t">>, <<"i">>, <<"n", "o", "b", "r">>, <<"s">>,
   <<"s", "m", "a", "l", "l">>, <<"s", "t", "r", "i", "k", "e">>,
   <<"s", "t", "r", "o", "n", "g">>, <<"t", "t">>, <<"u">>}

VoidNames ==
  {<<"a", "r", "e", "a">>, <<"b", "r">>, <<"e", "m", "b", "e", "d">>,
   <<"i", "m", "a", "g", "e">>, <<"i", "m", "g">>,
   <<"i", "n", "p", "u", "t">>, <<"w", "b", "r">>}

PlainVoidNames ==
  {<<"b", "a", "s", "e">>, <<"b", "a", "s", "e", "f", "o", "n", "t">>,
   <<"b", "g", "s", "o", "u", "n", "d">>, <<"l", "i", "n", "k">>,
   <<"m", "e", "t", "a">>, <<"p", "a", "r", "a", "m">>,
   <<"s", "o", "u", "r", "c", "e">>, <<"t", "r", "a", "c", "k">>}

IgnoredNames ==
  {<<"b", "o", "d", "y">>, <<"c", "a", "p", "t", "i", "o", "n">>,
   <<"c", "o", "l">>, <<"c", "o", "l", "g", "r", "o", "u", "p">>,
   <<"f", "r", "a", "m", "e">>, <<"h", "e", "a", "d">>,
   <<"h", "t", "m", "l">>, <<"t", "b", "o", "d", "y">>, <<"t", "d">>,
   <<"t", "f", "o", "o", "t">>, <<"t", "h">>, <<"t", "h", "e", "a", "d">>,
   <<"t", "r">>}

UnmodelledNames ==
  {<<"a", "p", "p", "l", "e", "t">>, <<"b", "u", "t", "t", "o", "n">>,
   <<"d", "i", "a", "l", "o", "g">>, <<"f", "o", "r", "m">>,
   <<"f", "r", "a", "m", "e", "s", "e", "t">>,
   <<"k", "e", "y", "g", "e", "n">>, <<"m", "a", "r", "q", "u", "e", "e">>,
   <<"m", "a", "t", "h">>, <<"n", "o", "s", "c", "r", "i", "p", "t">>,
   <<"o", "b", "j", "e", "c", "t">>,
   <<"o", "p", "t", "g", "r", "o", "u", "p">>,
   <<"o", "p", "t", "i", "o", "n">>, <<"r", "b">>, <<"r", "p">>, <<"r", "t">>,
   <<"r", "t", "c">>, <<"s", "e", "a", "r", "c", "h">>,
   <<"s", "e", "l", "e", "c", "t">>, <<"s", "v", "g">>,
   <<"t", "a", "b", "l", "e">>, <<"t", "e", "m", "p", "l", "a", "t", "e">>}

SpecialNames ==
  {<<"a", "d", "d", "r", "e", "s", "s">>, <<"a", "r", "e", "a">>,
   <<"a", "r", "t", "i", "c", "l", "e">>, <<"a", "s", "i", "d", "e">>,
   <<"b", "a", "s", "e">>, <<"b", "a", "s", "e", "f", "o", "n", "t">>,
   <<"b", "g", "s", "o", "u", "n", "d">>,
   <<"b", "l", "o", "c", "k", "q", "u", "o", "t", "e">>,
   <<"b", "o", "d", "y">>, <<"b", "r">>,
   <<"c", "a", "p", "t", "i", "o", "n">>, <<"c", "e", "n", "t", "e", "r">>,
   <<"c", "o", "l">>, <<"c", "o", "l", "g", "r", "o", "u", "p">>,
   <<"d", "d">>, <<"d", "e", "t", "a", "i", "l", "s">>, <<"d", "i", "r">>,
   <<"d", "i", "v">>, <<"d", "l">>, <<"d", "t">>, <<"e", "m", "b", "e", "d">>,
   <<"f", "i", "e", "l", "d", "s", "e", "t">>,
   <<"f", "i", "g", "c", "a", "p", "t", "i", "o", "n">>,
   <<"f", "i", "g", "u", "r", "e">>, <<"f", "o", "o", "t", "e", "r">>,
   <<"f", "r", "a", "m", "e">>, <<"h", "1">>, <<"h", "2">>, <<"h", "3">>,
   <<"h", "4">>, <<"h", "5">>, <<"h", "6">>, <<"h", "e", "a", "d">>,
   <<"h", "e", "a", "d", "e", "r">>, <<"h", "g", "r", "o", "u", "p">>,
   <<"h", "r">>, <<"h", "t", "m", "l">>, <<"i", "f", "r", "a", "m", "e">>,
   <<"i", "m", "g">>, <<"i", "n", "p", "u", "t">>, <<"l", "i">>,
   <<"l", "i", "n", "k">>, <<"l", "i", "s", "t", "i", "n", "g">>,
   <<"m", "a", "i", "n">>, <<"m", "e", "n", "u">>, <<"m", "e", "t", "a">>,
   <<"n", "a", "v">>, <<"n", "o", "e", "m", "b", "e", "d">>,
   <<"n", "o", "f", "r", "a", "m", "e", "s">>, <<"o", "l">>, <<"p">>,
   <<"p", "a", "r", "a", "m">>,
   <<"p", "l", "a", "i", "n", "t", "e", "x", "t">>, <<"p", "r", "e">>,
   <<"s", "c", "r", "i", "p", "t">>, <<"s", "e", "c", "t", "i", "o", "n">>,
   <<"s", "o", "u", "r", "c", "e">>, <<"s", "t", "y", "l", "e">>,
   <<"s", "u", "m", "m", "a", "r", "y">>, <<"t", "b", "o", "d", "y">>,
   <<"t", "d">>, <<"t", "e", "x", "t", "a", "r", "e", "a">>,
   <<"t", "f", "o", "o", "t">>, <<"t", "h">>, <<"t", "h", "e", "a", "d">>,
   <<"t", "i", "t", "l", "e">>, <<"t", "r">>, <<"t", "r", "a", "c", "k">>,
   <<"u", "l">>, <<"w", "b", "r">>, <<"x", "m", "p">>}

\* the end tags that close an element in scope
BlockEndNames == (BlockNames \ {N_p}) \cup {N_listing, N_pre}

\* the elements whose end tag is implied
ImpliedNames == {N_dd, N_dt, N_li, N_p}

\* The state of the tree construction: the stack of open elements, the list of
\* active formatting elements, the <a> elements made so far, the number of
\* elements made, whether a line feed that comes next is dropped, and whether
\* the text has kept to the modelled part of the algorithm.
OpenElement(name, id, anchor) == [name |-> name, id |-> id, anchor |-> anchor]
Format(name, id, anchor, attrs) ==
  [name |-> name, id |-> id, anchor |-> anchor, attrs |-> attrs]

NewDocument ==
  [stack |-> <<>>, formats |-> <<>>, anchors |-> <<>>, ids |-> 0,
   skip |-> FALSE, ok |-> TRUE]

NotModelled(st) == [st EXCEPT !.ok = FALSE]
NoSkip(st) == [st EXCEPT !.skip = FALSE]
WithStack(st, stack) == [st EXCEPT !.stack = stack]

OnStack(st, id) == \E k \in 1..Len(st.stack) : st.stack[k].id = id

\* the index of the last element of the stack with one of the names, 0 if none
LastIn(stack, names) ==
  Greatest({k \in 1..Len(stack) : stack[k].name \in names}, 0)

\* pop elements until one with one of the names has been popped
PopUntil(stack, names) == SubSeq(stack, 1, LastIn(stack, names) - 1)

\* generate implied end tags, except for the element `except`
Implied(stack, except) ==
  SubSeq(stack, 1,
         Greatest({k \in 1..Len(stack) :
                     stack[k].name \notin ImpliedNames \ {except}}, 0))

\* close a p element, if the stack has one in button scope
CloseP(stack) ==
  IF LastIn(stack, {N_p}) = 0 THEN stack
  ELSE PopUntil(Implied(stack, N_p), {N_p})

ClosingP(st) == WithStack(st, CloseP(st.stack))

\* insert an element for a start tag
Create(st, name, href) ==
  IF name = N_a
  THEN [st EXCEPT !.ids = @ + 1,
                  !.anchors = Append(@, Anchor(href, <<>>)),
                  !.stack = Append(@, OpenElement(name, st.ids + 1,
                                              Len(st.anchors) + 1))]
  ELSE [st EXCEPT !.ids = @ + 1,
                  !.stack = Append(@, OpenElement(name, st.ids + 1, 0))]

Push(st, name) == Create(st, name, <<>>)

\* the href of an entry of the list of active formatting elements
FormatHref(st, f) == IF f.anchor = 0 THEN <<>> ELSE st.anchors[f.anchor].href

\* the entry j of the list now stands for the element just created
Recreated(st, j) ==
  [st EXCEPT !.formats[j] =
     Format(@.name, st.stack[Len(st.stack)].id,
            st.stack[Len(st.stack)].anchor, @.attrs)]

\* reconstruct the active formatting elements: the entries after the last one
\* that is open get a new element each
RECURSIVE Recreate(_, _)
Recreate(st, j) ==
  IF j > Len(st.formats) THEN st
  ELSE Recreate(Recreated(Create(st, st.formats[j].name,
                                 FormatHref(st, st.formats[j])), j), j + 1)

Reconstruct(st) ==
  Recreate(st, 1 + Greatest({j \in 1..Len(st.formats) :
                               OnStack(st, st.formats[j].id)}, 0))

RemoveAt(seq, k) == SubSeq(seq, 1, k - 1) \o SubSeq(seq, k + 1, Len(seq))

\* push the current node onto the list of active formatting elements; of three
\* entries with its name and attributes the earliest goes
Earliest(formats, same) ==
  IF Cardinality(same) >= 3 THEN RemoveAt(formats, Least(same, 0)) ELSE formats

PushFormat(st, attrs) ==
  [st EXCEPT !.formats =
     Append(Earliest(@, {k \in 1..Len(@) :
                           /\ @[k].name = st.stack[Len(st.stack)].name
                           /\ @[k].attrs = attrs}),
            Format(st.stack[Len(st.stack)].name, st.stack[Len(st.stack)].id,
                   st.stack[Len(st.stack)].anchor, attrs))]

\* the text goes to the <a> elements that are open
AnchorsOpen(st) == {st.stack[k].anchor : k \in 1..Len(st.stack)} \ {0}

AppendText(st, text, refs) ==
  IF AnchorsOpen(st) = {} THEN st
  ELSE IF refs /\ ~RefsModelled(text) THEN NotModelled(st)
  ELSE [st EXCEPT !.anchors =
          [k \in 1..Len(@) |->
             IF k \in AnchorsOpen(st)
             THEN Anchor(@[k].href,
                         @[k].text \o (IF refs THEN Decode(text) ELSE text))
             ELSE @[k]]]

\* character tokens: recon when the insertion mode reconstructs the active
\* formatting elements, refs when the tokenizer decodes character references
InsertChars(st, text, recon, refs) ==
  IF text = <<>> THEN st
  ELSE AppendText(IF recon THEN Reconstruct(st) ELSE st, text, refs)

InsertText(st, text, recon, refs) ==
  InsertChars(NoSkip(st),
              IF st.skip /\ HasPrefixAt(text, 1, <<"\n">>) THEN Tail(text)
              ELSE text,
              recon, refs)

\* The adoption agency algorithm for the formatting element `subject`:
\*   "pop"    the current node has the name and is not in the list
\*   "other"  the list has no such element: the steps of any other end tag
\*   "remove" the element of the list is not open
\*   "close"  it is open and no special element is open inside it
\*   "block"  a special element is open inside it (the furthest block): the
\*            model does not have the steps that follow
FormatOf(st, subject) ==
  Greatest({k \in 1..Len(st.formats) : st.formats[k].name = subject}, 0)

StackIndex(st, id) ==
  Greatest({k \in 1..Len(st.stack) : st.stack[k].id = id}, 0)

AdoptionCaseAt(st, f, k) ==
  IF f = 0 THEN "other"
  ELSE IF k = 0 THEN "remove"
  ELSE IF \E j \in (k + 1)..Len(st.stack) : st.stack[j].name \in SpecialNames
  THEN "block"
  ELSE "close"

AdoptionCase(st, subject) ==
  IF /\ st.stack # <<>>
     /\ st.stack[Len(st.stack)].name = subject
     /\ \A k \in 1..Len(st.formats) :
          st.formats[k].id # st.stack[Len(st.stack)].id
  THEN "pop"
  ELSE AdoptionCaseAt(st, FormatOf(st, subject),
                      IF FormatOf(st, subject) = 0 THEN 0
                      ELSE StackIndex(st, st.formats[FormatOf(st, subject)].id))

AdoptAs(st, subject, case) ==
  CASE case = "pop" -> WithStack(st, SubSeq(st.stack, 1, Len(st.stack) - 1))
    [] case = "other" -> st
    [] case = "remove" ->
         [st EXCEPT !.formats = RemoveAt(@, FormatOf(st, subject))]
    [] case = "block" -> NotModelled(st)
    [] case = "close" ->
         [st EXCEPT
            !.formats = RemoveAt(@, FormatOf(st, subject)),
            !.stack = SubSeq(@, 1,
                             StackIndex(st, st.formats[FormatOf(st, subject)].id)
                             - 1)]

Adopt(st, subject) == AdoptAs(st, subject, AdoptionCase(st, subject))

\* any other end tag: the last open element of that name is closed, unless a
\* special element is open inside it
AnyOtherEndAt(stack, name, k) ==
  IF k > 0 /\ stack[k].name = name
  THEN SubSeq(Implied(stack, name), 1, k - 1)
  ELSE stack

AnyOtherEnd(st, name) ==
  WithStack(st, AnyOtherEndAt(st.stack, name,
                              Greatest({k \in 1..Len(st.stack) :
                                          \/ st.stack[k].name = name
                                          \/ st.stack[k].name \in SpecialNames},
                                       0)))

\* a start tag a when the list has an a element: the adoption agency
\* algorithm, then that element leaves the list and the stack
WithoutElement(st, id) ==
  [st EXCEPT !.formats = SelectSeq(@, LAMBDA f : f.id # id),
             !.stack = SelectSeq(@, LAMBDA e : e.id # id)]

CloseFormerA(st, name) ==
  IF name = N_a /\ FormatOf(st, N_a) # 0
  THEN WithoutElement(Adopt(st, N_a), st.formats[FormatOf(st, N_a)].id)
  ELSE st

\* a start tag nobr when a nobr element is in scope
CloseFormerNobr(st, name) ==
  IF name = N_nobr /\ LastIn(st.stack, {N_nobr}) # 0
  THEN Reconstruct(Adopt(st, N_nobr))
  ELSE st

StartFormatting(st, name, attrs) ==
  IF \E k \in 1..Len(attrs) : ~RefsModelled(attrs[k][2]) THEN NotModelled(st)
  ELSE PushFormat(Create(CloseFormerNobr(Reconstruct(CloseFormerA(st, name)),
                                         name),
                         name, HrefOf(attrs)),
                  AttrSet(attrs))

\* a start tag li, dd or dt closes the open item of its kind, unless a special
\* element other than address, div and p is open inside it
ItemNames(name) == IF name = N_li THEN {N_li} ELSE {N_dd, N_dt}

CloseItemAt(stack, names, k) ==
  IF k > 0 /\ stack[k].name \in names THEN SubSeq(stack, 1, k - 1) ELSE stack

CloseItem(stack, names) ==
  CloseItemAt(stack, names,
              Greatest({k \in 1..Len(stack) :
                          \/ stack[k].name \in names
                          \/ stack[k].name \in SpecialNames
                                                 \ {N_address, N_div, N_p}}, 0))

PopHeading(st) ==
  IF st.stack # <<>> /\ st.stack[Len(st.stack)].name \in HeadingNames
  THEN WithStack(st, SubSeq(st.stack, 1, Len(st.stack) - 1))
  ELSE st

\* the rules of "in body" for a start tag.  An element that holds text only
\* (title, textarea, style, script, ...) is closed by its end tag or by the end
\* of the text: it is not pushed.
StartTag(st, name, attrs) ==
  CASE name \in UnmodelledNames -> NotModelled(st)
    [] name \in IgnoredNames \cup PlainVoidNames -> st
    [] name \in FormattingNames -> StartFormatting(st, name, attrs)
    [] name \in BlockNames -> Push(ClosingP(st), name)
    [] name \in HeadingNames -> Push(PopHeading(ClosingP(st)), name)
    [] name \in {N_pre, N_listing} ->
         [Push(ClosingP(st), name) EXCEPT !.skip = TRUE]
    [] name \in {N_li, N_dd, N_dt} ->
         Push(ClosingP(WithStack(st, CloseItem(st.stack, ItemNames(name)))), name)
    [] name = N_plaintext -> Push(ClosingP(st), name)
    [] name \in VoidNames -> Reconstruct(st)
    [] name = N_hr -> ClosingP(st)
    [] name = N_textarea -> [st EXCEPT !.skip = TRUE]
    [] name = N_xmp -> Reconstruct(ClosingP(st))
    [] name \in RcdataNames \cup RawtextNames \cup {N_script} -> st
    [] OTHER -> Push(Reconstruct(st), name)

\* the rules of "in body" for an end tag
EndItemAt(stack, k) ==
  IF k > 0 /\ stack[k].name = N_li THEN SubSeq(stack, 1, k - 1) ELSE stack

EndTag(st, name) ==
  CASE name \in UnmodelledNames -> NotModelled(st)
    [] name \in {N_body, N_html} -> st
    [] name \in BlockEndNames ->
         IF LastIn(st.stack, {name}) = 0 THEN st
         ELSE WithStack(st, PopUntil(Implied(st.stack, <<>>), {name}))
    [] name = N_p ->
         ClosingP(IF LastIn(st.stack, {N_p}) = 0 THEN Push(st, N_p) ELSE st)
    [] name = N_li ->
         WithStack(st, EndItemAt(st.stack, LastIn(st.stack, {N_li, N_ol, N_ul})))
    [] name \in {N_dd, N_dt} ->
         IF LastIn(st.stack, {name}) = 0 THEN st
         ELSE WithStack(st, PopUntil(Implied(st.stack, name), {name}))
    [] name \in HeadingNames ->
         IF LastIn(st.stack, HeadingNames) = 0 THEN st
         ELSE WithStack(st, PopUntil(Implied(st.stack, <<>>), HeadingNames))
    [] name \in FormattingNames ->
         IF AdoptionCase(st, name) = "other" THEN AnyOtherEnd(st, name)
         ELSE Adopt(st, name)
    [] name = N_br -> Reconstruct(st)
    [] OTHER -> AnyOtherEnd(st, name)

\* the text of an element that holds text only; a script with "<!--" in it is
\* outside the model
RawText(st, name, text) ==
  IF name = N_script /\ includes(text, <<"<", "!", "-", "-">>) THEN NotModelled(st)
  ELSE InsertText(st, text, FALSE, name \in RcdataNames)

\* The parse of s from position i on, token by token.
RECURSIVE Parse(_, _, _), TextToken(_, _, _, _), Markup(_, _, _),
          StartTagAt(_, _, _, _), StartTagWith(_, _, _, _),
          Continue(_, _, _, _), RawTextAt(_, _, _, _, _), RawClose(_, _, _),
          EndTagAt(_, _, _, _), EndTagWith(_, _, _, _)
Parse(s, i, st) ==
  IF ~st.ok \/ i > Len(s) THEN st
  ELSE IF IsMarkupAt(s, i) THEN Markup(s, i, st)
  ELSE TextToken(s, i,
                 Least({p \in (i + 1)..Len(s) : IsMarkupAt(s, p)}, Len(s) + 1),
                 st)

TextToken(s, i, e, st) ==
  Parse(s, e, InsertText(st, SubSeq(s, i, e - 1), TRUE, TRUE))

\* markup at position i: a comment <!-- -->; a declaration or a bogus comment,
\* up to the next ">"; </>, which is dropped; an end tag; a start tag
Markup(s, i, st) ==
  IF s[i + 1] = "!"
  THEN Parse(s,
             IF HasPrefixAt(s, i + 2, <<"-", "-">>) THEN CommentEnd(s, i + 4)
             ELSE NextIn(s, i + 2, {">"}) + 1,
             NoSkip(st))
  ELSE IF s[i + 1] = "?" THEN Parse(s, NextIn(s, i + 1, {">"}) + 1, NoSkip(st))
  ELSE IF s[i + 1] = "/"
  THEN (IF s[i + 2] = ">" THEN Parse(s, i + 3, st)
        ELSE IF IsLetter(s[i + 2])
        THEN EndTagAt(s, i + 2, NextIn(s, i + 2, HtmlSpaces \cup {"/", ">"}), st)
        ELSE Parse(s, NextIn(s, i + 2, {">"}) + 1, NoSkip(st)))
  ELSE StartTagAt(s, i + 1, NextIn(s, i + 1, HtmlSpaces \cup {"/", ">"}), st)

\* the tag name spans positions b..(e - 1)
StartTagAt(s, b, e, st) ==
  IF e > Len(s) THEN st
  ELSE StartTagWith(s, AsciiLower(SubSeq(s, b, e - 1)), AttrsFrom(s, e, <<>>), st)

StartTagWith(s, name, tag, st) ==
  IF tag.end = 0 THEN st
  ELSE Continue(s, name, tag.end, StartTag(NoSkip(st), name, tag.attrs))

\* after a start tag the tokenizer goes on in the data state, or takes the
\* text up to the end tag of the element, or (plaintext) all the text
Continue(s, name, next, st) ==
  IF ~st.ok THEN st
  ELSE IF name \in RcdataNames \cup RawtextNames \cup {N_script}
  THEN RawTextAt(s, name, next,
                 Least({p \in next..Len(s) : IsRawEnd(s, p, name)}, 0), st)
  ELSE IF name = N_plaintext
  THEN InsertText(st, SubSeq(s, next, Len(s)), TRUE, FALSE)
  ELSE Parse(s, next, st)

RawTextAt(s, name, next, c, st) ==
  IF c = 0 THEN RawText(st, name, SubSeq(s, next, Len(s)))
  ELSE RawClose(s, AttrsFrom(s, c + 2 + Len(name), <<>>),
                RawText(st, name, SubSeq(s, next, c - 1)))

RawClose(s, tag, st) ==
  IF tag.end = 0 THEN st ELSE Parse(s, tag.end, NoSkip(st))

EndTagAt(s, b, e, st) ==
  IF e > Len(s) THEN st
  ELSE EndTagWith(s, AsciiLower(SubSeq(s, b, e - 1)), AttrsFrom(s, e, <<>>), st)

EndTagWith(s, name, tag, st) ==
  IF tag.end = 0 THEN st ELSE Parse(s, tag.end, EndTag(NoSkip(st), name))

\* whether the parse of a text keeps to the modelled part of the algorithm
IsModelledMarkup(htmlText) == Parse(NewLines(htmlText), 1, NewDocument).ok

AnchorsOf(st) == IF st.ok THEN st.anchors ELSE Unmodelled

AnchorsIn(htmlText) == AnchorsOf(Parse(NewLines(htmlText), 1, NewDocument))

\* if (m?.[1]) candidates.push(m[1])
Pushed(m) == IF Truthy(m) THEN <<m.v>> ELSE <<>>

\* the candidates the loop over the anchors pushes
RECURSIVE AnchorCandidates(_)
AnchorCandidates(anchors) ==
  IF anchors = <<>> THEN <<>>
  ELSE Pushed(LitUserCapture(Head(anchors).href, L_instagram_com))
       \o Pushed(TextCapture(Head(anchors).text))
       \o AnchorCandidates(Tail(anchors))

\* /^[a-zA-Z0-9._]{1,30}$/.test(raw)
IsPlausible(raw) ==
  Len(raw) >= 1 /\ Len(raw) <= UserMax /\ \A i \in 1..Len(raw) : IsUserChar(raw[i])

W_html == <<"Se importo un archivo HTML (export de Instagram en formato HTML).">>
W_htmlEmpty ==
  <<"No se pudieron extraer usernames desde el HTML. Si Instagram te deja elegir formato, prueba con JSON.">>

\* the candidates of the three text passes and of the pass over the anchors
Candidates(htmlText, dom, anchors) ==
  MatchAll("urlRe", htmlText, 1)
  \o MatchAll("atRe", htmlText, 1)
  \o MatchAll("valueRe", htmlText, 1)
  \o (IF dom = "present" THEN AnchorCandidates(anchors) ELSE <<>>)

\* the result without the second warning
HtmlResultSilent(usernames) == ParseResult("unknown", usernames, <<W_html>>)

HtmlResult(usernames) ==
  ParseResult("unknown", usernames,
              IF Len(usernames) = 0 THEN <<W_html, W_htmlEmpty>> ELSE <<W_html>>)

\* dom: whether DOMParser is "absent", "throws" or is "present"; anchors: the
\* <a> elements (href attribute, text content) DOMParser finds in htmlText
parseInstagramRelationshipHtml(htmlText, dom, anchors) ==
  HtmlResult(uniqueSorted(SelectSeq(Candidates(htmlText, dom, anchors), IsPlausible)))

\* the copy of the parser in src/lib/instagramExport.ts: it tests the filtered
\* candidates, not the usernames, and words the second warning differently
W_htmlEmptyInExport ==
  <<"No se pudieron extraer usernames desde el HTML. Intenta descargar en formato JSON si Instagram te da esa opcion.">>

HtmlResultInExport(plausible) ==
  ParseResult("unknown", uniqueSorted(plausible),
              IF Len(plausible) = 0 THEN <<W_html, W_htmlEmptyInExport>>
              ELSE <<W_html>>)

parseInstagramRelationshipHtmlInExport(htmlText, dom, anchors) ==
  HtmlResultInExport(SelectSeq(Candidates(htmlText, dom, anchors), IsPlausible))

(***************************************************************************)
(* Files.  The text of a file is either the serialization of a JSON value, *)
(* which JSON.parse decodes to that value, or a text JSON.parse rejects;   *)
(* or the file cannot be read, and file.text() rejects.                    *)
(***************************************************************************)
JsonBody(v) == [t |-> "json", v |-> v]
TextBody(text) == [t |-> "text", text |-> text]
Unreadable == [t |-> "unreadable"]
File(name, body) == [name |-> name, body |-> body]

\* what JSON.stringify writes for one character of a string: the quote, the
\* backslash and the control characters U+0000..U+001F are escaped
EscapeChar(c) ==
  CASE c \in {"\"", "\\"} -> <<"\\", c>>
    [] c = "\t" -> <<"\\", "t">>
    [] c = "\n" -> <<"\\", "n">>
    [] c = "\f" -> <<"\\", "f">>
    [] c = "\r" -> <<"\\", "r">>
    [] c = VT -> <<"\\", "u", "0", "0", "0", "b">>
    [] OTHER -> <<c>>

RECURSIVE Escape(_)
Escape(s) ==
  IF s = <<>> THEN <<>> ELSE EscapeChar(Head(s)) \o Escape(Tail(s))

Quote(s) == <<"\"">> \o Escape(s) \o <<"\"">>

RECURSIVE Decimal(_)
Decimal(n) ==
  IF n < 10 THEN <<DigitSeq[n + 1]>>
  ELSE Decimal(n \div 10) \o <<DigitSeq[(n % 10) + 1]>>

\* the text of a JSON value, as JSON.stringify writes it; StringifyAll writes the
\* elements of an array (members = FALSE) or the members of an object
RECURSIVE Stringify(_), StringifyAll(_, _)
Stringify(v) ==
  CASE v.t = "null" -> <<"n","u","l","l">>
    [] v.t = "num" -> Decimal(v.v)
    [] v.t = "str" -> Quote(v.v)
    [] v.t = "arr" -> <<"[">> \o StringifyAll(v.v, FALSE) \o <<"]">>
    [] v.t = "obj" -> <<"{">> \o StringifyAll(v.v, TRUE) \o <<"}">>

StringifyAll(xs, members) ==
  IF xs = <<>> THEN <<>>
  ELSE (IF members
        THEN Quote(Head(xs)[1]) \o <<":">> \o Stringify(Head(xs)[2])
        ELSE Stringify(Head(xs)))
       \o (IF Len(xs) > 1 THEN <<",">> ELSE <<>>)
       \o StringifyAll(Tail(xs), members)

\* await file.text() throws: the promise rejects
TextRejects(file) == file.body.t = "unreadable"

\* the text await file.text() gives when the promise resolves
FileText(file) ==
  IF file.body.t = "json" THEN Stringify(file.body.v) ELSE file.body.text

\* JSON.parse(text) throws
JsonParseThrows(file) == file.body.t # "json"

(***************************************************************************)
(* Aggregator: handleFiles (src/App.tsx)                                   *)
(***************************************************************************)
Null == [isNull |-> TRUE]
Some(x) == [isNull |-> FALSE, v |-> x]

L_html == <<".","h","t","m","l">>
L_htm == <<".","h","t","m">>

W_prefixed(name, w) == <<"\"name\": w", name, w>>
W_hintFollowing(name) ==
  <<"\"name\": el nombre sugiere \"following\" pero lo cargaste como seguidores.", name>>
W_hintFollowers(name) ==
  <<"\"name\": el nombre sugiere \"followers\" pero lo cargaste como seguidos.", name>>
W_noUsernames(name) == <<"En \"name\" no pude extraer usernames.", name>>
W_mismatch(name, kind, expected) ==
  <<"El archivo \"name\" parece ser \"kind\" pero lo cargaste como \"expected\". Aun asi, pude extraer usernames.",
    name, kind, expected>>
W_decodeFail(name) ==
  <<"\"name\": no pude parsearlo como JSON. Asegurate de subir el *.json original del ZIP.", name>>
E_noUsernames ==
  "No pude obtener usernames. Sube los archivos de la descarga de Instagram (JSON o HTML): followers_* y following."

\* result.warnings.map((w) => `"${file.name}": ${w}`)
Prefixed(name, ws) == [i \in 1..Len(ws) |-> W_prefixed(name, ws[i])]

\* /^\s*</.test(text)
FirstCharIs(text, i, c) == i <= Len(text) /\ text[i] = c

looksLikeHtml(text) == FirstCharIs(text, SkipSpaces(text, 1), "<")

EndsWithHtml(lower) == endsWith(lower, L_html) \/ endsWith(lower, L_htm)

isHtmlByName(name) == EndsWithHtml(toLowerCase(name))

\* the Set `combined` and the array `combinedWarnings`
Acc(combined, combinedWarnings) ==
  [combined |-> combined, combinedWarnings |-> combinedWarnings]

\* the warning about a file name that suggests the other category
NameHint(name, lower, expected) ==
  IF expected = "followers" /\ includes(lower, K_following)
  THEN <<W_hintFollowing(name)>>
  ELSE IF expected = "following" /\ includes(lower, K_followers)
  THEN <<W_hintFollowers(name)>>
  ELSE <<>>

\* the markup branch of the loop body, result the Markup Parser's
HtmlFileStep(file, expected, acc, result) ==
  IF Len(result.usernames) = 0
  THEN Acc(acc.combined,
           acc.combinedWarnings \o Prefixed(file.name, result.warnings))
  ELSE Acc(SetAddAll(acc.combined, result.usernames),
           acc.combinedWarnings
           \o NameHint(file.name, toLowerCase(file.name), expected)
           \o Prefixed(file.name, result.warnings))

\* the warning about a detected kind that is not the expected one
KindMismatch(name, kind, expected) ==
  IF kind # "unknown" /\ kind # expected
  THEN <<W_mismatch(name, kind, expected)>>
  ELSE <<>>

\* the structured-data branch of the loop body after JSON.parse, result the
\* Structured-Data Parser's
JsonFileStep(file, expected, acc, result) ==
  IF Len(result.usernames) = 0
  THEN Acc(acc.combined, Append(acc.combinedWarnings, W_noUsernames(file.name)))
  ELSE Acc(SetAddAll(acc.combined, result.usernames),
           acc.combinedWarnings
           \o KindMismatch(file.name, result.kind, expected)
           \o Prefixed(file.name, result.warnings))

\* a catch block that also drops what the files before it gave
CatchStepDrop(file, acc) ==
  Acc(<<>>, Append(acc.combinedWarnings, W_decodeFail(file.name)))

\* the catch block
CatchStep(file, acc) ==
  Acc(acc.combined, Append(acc.combinedWarnings, W_decodeFail(file.name)))

\* one iteration of the loop, text the file's text
FileStepOn(file, expected, acc, dom, text) ==
  IF looksLikeHtml(text) \/ isHtmlByName(file.name)
  THEN HtmlFileStep(file, expected, acc,
                    parseInstagramRelationshipHtml(text, dom, AnchorsIn(text)))
  ELSE IF JsonParseThrows(file)
  THEN CatchStep(file, acc)
  ELSE JsonFileStep(file, expected, acc,
                    parseInstagramRelationshipJson(file.body.v))

\* one iteration of `for (const file of Array.from(files))`: the try block, or
\* the catch block when the read fails
FileStep(file, expected, acc, dom) ==
  IF TextRejects(file) THEN CatchStep(file, acc)
  ELSE FileStepOn(file, expected, acc, dom, FileText(file))

\* the loop over the files from position i on
RECURSIVE Loop(_, _, _, _, _)
Loop(files, i, expected, acc, dom) ==
  IF i > Len(files) THEN acc
  ELSE Loop(files, i + 1, expected, FileStep(files[i], expected, acc, dom), dom)

\* Array.from(combined).sort((a, b) => a.localeCompare(b))
MergedUsernames(combined) == sortLocale(combined)

AggregateResult(usernames, ws) ==
  [usernames |-> usernames, warnings |-> ws, failed |-> Len(usernames) = 0]

AggregateOf(acc) ==
  AggregateResult(MergedUsernames(acc.combined), acc.combinedWarnings)

\* what handleFiles gives on a non-empty batch when nothing runs between its
\* steps: the merged usernames, the warnings and whether the load failed
Aggregate(files, expected, dom) ==
  AggregateOf(Loop(files, 1, expected, Acc(<<>>, <<>>), dom))

(***************************************************************************)
(* Diff Engine: the useMemo `notFollowingBack` (src/App.tsx)               *)
(***************************************************************************)
\* following.filter((u) => !followersSet.has(u)), keeping the followers instead
DiffKeepCommon(followingList, followersList) ==
  LET Keep(u) == u \in Range(followersList)
  IN  SelectSeq(followingList, Keep)

\* following.filter((u) => !followersSet.has(u))
Diff(followingList, followersList) ==
  LET Keep(u) == u \notin Range(followersList)
  IN  SelectSeq(followingList, Keep)

notFollowingBack ==
  IF followers.isNull \/ following.isNull THEN Null
  ELSE Some(Diff(following.v, followers.v))

(***************************************************************************)
(* Inputs                                                                  *)
(***************************************************************************)
S_Ann == <<"A","n","n">>
S_ann_sp == <<"a","n","n"," ">>
S_at_b_1 == <<"@","b","_","1">>
S_b1 == <<"b","1">>
S_a_b == <<"a"," ","b","!">>
S_Bob == <<"B","o","b">>
S_cy == <<"c","y">>
S_at_Eve == <<" ","@","E","v","e">>
S_Dee == <<"D","e","e">>
S_e_acute == <<"é">>           \* U+00E9
S_e_ACUTE == <<"e", ACUTE>>    \* U+0065 U+0301, canonically equivalent to U+00E9
S_a_Zed == <<"<","a",">","Z","e","d","<","/","a",">">>
K_relationships_x == K_relationships_ \o <<"x">>
K_other == <<"o","t","h","e","r">>

P_https == L_http \o <<"s">> \o L_scheme \o L_instagram_com
P_https_www == L_http \o <<"s">> \o L_scheme \o L_www \o L_instagram_com
H_u_bob == P_https_www \o L_u \o <<"b","o","b">>
H_cy == P_https_www \o S_cy \o <<"/">>
H_Dee == P_https \o S_Dee \o <<"/">>
H_none == L_http \o <<"s">> \o L_scheme \o <<"e","x",".","o","r","g","/","x">>

N_followers_1_json == <<"f","o","l","l","o","w","e","r","s","_","1",".","j","s","o","n">>
N_following_json == <<"f","o","l","l","o","w","i","n","g",".","j","s","o","n">>
N_bad_json == <<"b","a","d",".","j","s","o","n">>
N_none_json == <<"n","o","n","e",".","j","s","o","n">>
N_following_html == <<"f","o","l","l","o","w","i","n","g",".","h","t","m","l">>
N_blank_htm == <<"b","l","a","n","k",".","h","t","m">>
N_requests_json == <<"r","e","q","u","e","s","t","s",".","j","s","o","n">>
N_followers_2_HTML == <<"f","o","l","l","o","w","e","r","s","_","2",".","H","T","M","L">>
N_followers_3_json == <<"f","o","l","l","o","w","e","r","s","_","3",".","j","s","o","n">>

\* relationship entries
ValueEntry(value) ==
  JObj(<< <<K_string_list_data, JArr(<<JObj(<< <<K_value, JStr(value)>> >>)>>)>> >>)
TitleEntry(title, href) ==
  JObj(<< <<K_title, JStr(title)>>,
          <<K_string_list_data, JArr(<<JObj(<< <<K_href, JStr(href)>> >>)>>)>> >>)
Export(key, entries) == JObj(<< <<key, JArr(entries)>> >>)

\* the markup an <a> element is written as
AnchorMarkup(a) ==
  <<"<","a"," ","h","r","e","f","=","\"">> \o a.href \o <<"\"",">">> \o a.text
  \o <<"<","/","a",">">>

F_followers ==
  File(N_followers_1_json,
       JsonBody(Export(K_relationships_followers,
                       <<ValueEntry(S_Bob), ValueEntry(S_Ann),
                         ValueEntry(S_e_ACUTE)>>)))
F_following ==
  File(N_following_json,
       JsonBody(Export(K_relationships_following,
                       <<TitleEntry(S_cy, H_cy), TitleEntry(<<>>, H_u_bob)>>)))
F_bad == File(N_bad_json, TextBody(<<"o","o","p","s">>))
F_none == File(N_none_json, JsonBody(Export(K_relationships_following, <<>>)))
F_html == File(N_following_html, TextBody(AnchorMarkup(Anchor(H_Dee, S_Dee))))
F_blank == File(N_blank_htm, TextBody(<<"<","p",">","-","<","/","p",">">>))
F_requests ==
  File(N_requests_json,
       JsonBody(Export(K_relationships_x,
                       <<ValueEntry(S_at_Eve), ValueEntry(S_e_acute)>>)))
\* a JSON text in a file named as markup, one of its strings holding an <a>
F_jsonAsHtml ==
  File(N_followers_2_HTML,
       JsonBody(Export(K_relationships_followers,
                       <<ValueEntry(S_Ann), ValueEntry(S_a_Zed)>>)))
\* a file that can no longer be read when handleFiles asks for its text
F_gone == File(N_followers_3_json, Unreadable)

\* the sequences of at most n elements of S
RECURSIVE SeqsUpTo(_, _)
SeqsUpTo(S, n) ==
  IF n = 0 THEN {<<>>}
  ELSE SeqsUpTo(S, n - 1) \cup {Append(b, f) : b \in SeqsUpTo(S, n - 1), f \in S}

IsInjective(b) == \A i, j \in 1..Len(b) : i # j => b[i] # b[j]

\* the batches of at most n files of S: a FileList holds a file once
Batches(S, n) == {b \in SeqsUpTo(S, n) : IsInjective(b)}

Categories == {"followers", "following"}

(***************************************************************************)
(* The App component (src/App.tsx)                                         *)
(***************************************************************************)
MaxLoads == 3    \* handleFiles invocations in one run
MaxCalls == 2    \* handleFiles invocations suspended at the same time

\* the App runs in a browser, where DOMParser exists
AppDom == "present"

\* the batches the user may choose
AppBatches ==
  {<<>>, <<F_followers>>, <<F_following>>, <<F_bad, F_gone>>}

NoCall ==
  [id |-> 0, expected |-> "none", files |-> <<>>, usernames |-> <<>>,
   warnings |-> <<>>, list |-> Null, error |-> Null]

\* the App before any load, on a host whose default locale is any of Locales
InitApp ==
  /\ followers = Null
  /\ following = Null
  /\ warnings = <<>>
  /\ error = Null
  /\ calls = <<>>
  /\ started = 0
  /\ last = NoCall
  /\ outcome = [c \in Categories |-> "none"]
  /\ locale \in Locales

Init ==
  /\ InitApp
  /\ arg = <<>>
  /\ ret = <<>>
  /\ pc = "app"

\* setList(value), with setList = setFollowers or setFollowing
SetList(expected, value) ==
  /\ followers' = IF expected = "followers" THEN value ELSE followers
  /\ following' = IF expected = "following" THEN value ELSE following

\* what the returning invocation is remembered by
Outcome(call, usernames, ws, list, err) ==
  [id |-> call.id, expected |-> call.expected, files |-> call.files,
   usernames |-> usernames, warnings |-> ws, list |-> list, error |-> err]

\* the statements after the loop without the setList(null) of the failure branch
DeliverKeepList(call, ws, usernames) ==
  /\ IF Len(usernames) = 0
     THEN /\ warnings' = ws
          /\ error' = Some(E_noUsernames)
          /\ UNCHANGED <<followers, following>>
          /\ last' = Outcome(call, usernames, ws, Null, Some(E_noUsernames))
     ELSE /\ warnings' = IF Len(ws) > 0 THEN ws ELSE warnings
          /\ error' = error
          /\ SetList(call.expected, Some(usernames))
          /\ last' = Outcome(call, usernames, ws, Some(usernames), error)
  /\ outcome' = [outcome EXCEPT
                   ![call.expected] = IF Len(usernames) = 0 THEN "failed" ELSE "ok"]


\* the statements of handleFiles after the loop, usernames the sorted merge
Deliver(call, ws, usernames) ==
  /\ IF Len(usernames) = 0
     THEN /\ warnings' = ws
          /\ error' = Some(E_noUsernames)
          /\ SetList(call.expected, Null)
          /\ last' = Outcome(call, usernames, ws, Null, Some(E_noUsernames))
     ELSE /\ warnings' = IF Len(ws) > 0 THEN ws ELSE warnings
          /\ error' = error
          /\ SetList(call.expected, Some(usernames))
          /\ last' = Outcome(call, usernames, ws, Some(usernames), error)
  /\ outcome' = [outcome EXCEPT
                   ![call.expected] = IF Len(usernames) = 0 THEN "failed" ELSE "ok"]

Returned(call, acc) ==
  Deliver(call, acc.combinedWarnings, MergedUsernames(acc.combined))

\* the call record of a new invocation
NewCall(id, expected, files) ==
  [id |-> id, expected |-> expected, files |-> files, idx |-> 1,
   acc |-> Acc(<<>>, <<>>)]

\* handleFiles(files, setList, expected) up to its first `await file.text()`, or
\* to its return when there is no file
HandleFiles(expected, files) ==
  /\ pc = "app"
  /\ started < MaxLoads
  /\ Len(calls) < MaxCalls
  /\ started' = started + 1
  /\ error' = Null
  /\ warnings' = <<>>
  /\ IF Len(files) = 0
     THEN /\ SetList(expected, Null)
          /\ last' = Outcome(NewCall(started + 1, expected, files),
                             <<>>, <<>>, Null, Null)
          /\ outcome' = [outcome EXCEPT ![expected] = "cleared"]
          /\ UNCHANGED calls
     ELSE /\ calls' = Append(calls, NewCall(started + 1, expected, files))
          /\ UNCHANGED <<followers, following, last, outcome>>
  /\ UNCHANGED <<locale, arg, ret, pc>>

\* calls without its i-th element
Without(cs, i) ==
  [k \in 1..(Len(cs) - 1) |-> IF k < i THEN cs[k] ELSE cs[k + 1]]

\* invocation `call`, the i-th suspended one, goes on with acc the state of its
\* loop after the iteration that was waiting
Resumed(i, call, acc) ==
  IF call.idx < Len(call.files)
  THEN /\ calls' = [calls EXCEPT ![i].idx = call.idx + 1, ![i].acc = acc]
       /\ UNCHANGED <<followers, following, warnings, error, last, outcome>>
  ELSE /\ calls' = Without(calls, i)
       /\ Returned(call, acc)

\* the read a suspended invocation awaits resolves: the rest of that iteration, then
\* either the next `await file.text()` or the statements after the loop
Resume(i) ==
  /\ pc = "app"
  /\ i \in 1..Len(calls)
  /\ Resumed(i, calls[i],
             FileStep(calls[i].files[calls[i].idx], calls[i].expected,
                      calls[i].acc, AppDom))
  /\ UNCHANGED <<started, locale, arg, ret, pc>>

resetAll ==
  /\ pc = "app"
  /\ followers' = Null
  /\ following' = Null
  /\ warnings' = <<>>
  /\ error' = Null
  /\ outcome' = [c \in Categories |-> "none"]
  /\ UNCHANGED <<calls, started, last, locale, arg, ret, pc>>

Next ==
  \/ \E expected \in Categories, files \in AppBatches :
       HandleFiles(expected, files)
  \/ \E i \in 1..MaxCalls : Resume(i)
  \/ resetAll

Spec == Init /\ [][Next]_vars

(***************************************************************************)
(* One load from the initial state, over a larger choice of files          *)
(***************************************************************************)
MaxLoadBatch == 3

LoadFiles == {F_followers, F_following, F_bad, F_none, F_html, F_blank,
              F_requests, F_jsonAsHtml, F_gone}

LoadStart ==
  \E expected \in Categories, files \in Batches(LoadFiles, MaxLoadBatch) :
    started = 0 /\ HandleFiles(expected, files)

NextLoad == LoadStart \/ Resume(1)

SpecLoad == Init /\ [][NextLoad]_vars

(***************************************************************************)
(* The pure functions, each applied once to an input chosen initially      *)
(***************************************************************************)
InitCall(inputs) ==
  /\ InitApp
  /\ arg \in inputs
  /\ ret = <<>>
  /\ pc = "call"

\* the call returns result
Return(result) ==
  /\ pc = "call"
  /\ ret' = result
  /\ pc' = "done"
  /\ UNCHANGED <<followers, following, warnings, error, calls, started, last,
                 outcome, locale, arg>>

\* normalizeUsername -------------------------------------------------------
MaxRawLen == 3

RawChars == {"@", " ", NBSP, "a", "B", "Σ"}

CallNormalize == Return(normalizeUsername(arg))

SpecNormalize == InitCall(SeqsUpTo(RawChars, MaxRawLen)) /\ [][CallNormalize]_vars

\* notFollowingBack --------------------------------------------------------
MaxListLen == 3

Ids == {<<"a","n","n">>, <<"b","o","b">>, <<"c","y">>}

DiffInputs ==
  [following : SeqsUpTo(Ids, MaxListLen), followers : SeqsUpTo(Ids, MaxListLen)]

CallDiff == Return(Diff(arg.following, arg.followers))

SpecDiff == InitCall(DiffInputs) /\ [][CallDiff]_vars

\* extractUsernameFromRelationshipEntry --------------------------------------
MaxItems == 2

Items ==
  {JNum(5), JObj(<<>>),
   JObj(<< <<K_value, JStr(<<>>)>> >>),
   JObj(<< <<K_value, JStr(S_Ann)>> >>),
   JObj(<< <<K_value, JNum(5)>> >>),
   JObj(<< <<K_href, JStr(H_cy)>> >>),
   JObj(<< <<K_href, JStr(H_none)>> >>),
   JObj(<< <<K_value, JStr(<<>>)>>, <<K_href, JStr(H_u_bob)>> >>)}

\* the members an entry may have for one key: none, or one of values
Member(key, values) == {<<>>} \cup {<< <<key, v>> >> : v \in values}

Entries ==
  {JObj(t \o l) :
     t \in Member(K_title, {JStr(<<>>), JStr(S_Bob), JNum(7)}),
     l \in Member(K_string_list_data,
                  {JStr(S_Ann)} \cup {JArr(is) : is \in SeqsUpTo(Items, MaxItems)})}
  \cup {JNull, JNum(1), JStr(S_Ann), JArr(<<>>)}

CallExtract == Return(extractUsernameFromRelationshipEntry(arg))

SpecExtract == InitCall(Entries) /\ [][CallExtract]_vars

\* the two parsers and the merge --------------------------------------------
MaxEntries == 2
MaxPieces == 2
MaxMerge == 2

ParserEntries ==
  {ValueEntry(S_Ann), ValueEntry(S_ann_sp), ValueEntry(S_at_b_1), ValueEntry(S_b1),
   ValueEntry(S_a_b), ValueEntry(<<"@">>), TitleEntry(S_Bob, H_cy),
   ValueEntry(<<"c","h">>), ValueEntry(<<"d">>)}

\* identifiers that some locale orders otherwise than the root order does, or
\* compares as equal
OrderIds ==
  {<<"a">>, <<"a",".">>, <<"a","a">>, <<"b">>, <<"c">>, <<"c","h">>, <<"c","s">>,
   <<"c","t">>, <<"d">>, <<"d","h">>, <<"d","i">>, <<"e">>, <<"g","b">>,
   <<"g","c">>, <<"h">>, <<"i">>, <<"j">>, <<"l","j">>, <<"l","k">>, <<"n","g">>,
   <<"n","h">>, <<"s","h">>, <<"s","i">>, <<"t">>, <<"x">>, <<"y">>, <<"z">>,
   <<"g","z">>, <<"k","p">>, <<"k","z">>, <<"n","y">>, <<"n","z">>, <<"s","z">>,
   <<"b","1">>, <<"b","_","1">>, <<"é">>, <<"e", ACUTE>>}

\* an array of two entries whose values are such identifiers
OrderInputs ==
  {JArr(<<ValueEntry(a), ValueEntry(b)>>) : a \in OrderIds, b \in OrderIds}

JsonInputs ==
  {Export(k, es) :
     k \in {K_relationships_followers, K_relationships_following,
            K_relationships_x, K_other},
     es \in SeqsUpTo(ParserEntries, MaxEntries)}
  \cup {JArr(es) : es \in SeqsUpTo(ParserEntries, MaxEntries)}
  \cup {JNull, JNum(1), JStr(S_Ann), JObj(<<>>)}
  \cup OrderInputs

\* a markup text is written as a sequence of pieces: plain text, or an <a> element
Plain(text) == [a |-> FALSE, text |-> text, href |-> <<>>]
Element(href, text) == [a |-> TRUE, text |-> text, href |-> href]

Pieces ==
  {Plain(P_https), Plain(L_http \o L_scheme \o L_www \o L_instagram_com),
   Plain(<<"@">>), Plain(S_Dee), Plain(S_b1), Plain(<<"b","_","1","/">>),
   Plain(<<" ">>), Plain(L_value \o <<":","\"">>), Plain(<<"\"">>),
   Plain(<<"a","-","b">>),
   Plain(L_value \o <<" ",":","\"","C","y","\"">>),
   Plain(L_value \o <<":"," ","\"","c"," ","y","\"">>),
   Element(H_Dee, <<"@">> \o S_Dee), Element(<<>>, <<"-"," ","c","y","!">>),
   \* an <a> element with white space around the "=" of its href; the start of
   \* a comment and of a title, in which "<a" starts no element
   Plain(<<"<","a"," ","h","r","e","f"," ","="," ","\"">> \o H_cy
         \o <<"\"",">","-","<","/","a",">">>),
   Plain(<<"<","!","-","-">>), Plain(<<"<","t","i","t","l","e",">">>),
   \* a profile URL and a mention whose identifiers differ by a "_"
   Plain(P_https \o <<"b","_","1","/">>), Plain(<<"@">> \o S_b1),
   Plain(P_https \o S_b1 \o <<"/">> \o S_at_b_1)}

RECURSIVE MarkupOf(_)
MarkupOf(pieces) ==
  IF pieces = <<>> THEN <<>>
  ELSE (IF Head(pieces).a
        THEN AnchorMarkup(Anchor(Head(pieces).href, Head(pieces).text))
        ELSE Head(pieces).text)
       \o MarkupOf(Tail(pieces))

\* a text, whether DOMParser is there, and the <a> elements it finds in the text
MarkupInput(text, dom) == [text |-> text, anchors |-> AnchorsIn(text), dom |-> dom]

HtmlInputs ==
  {MarkupInput(MarkupOf(ps), d) :
     ps \in SeqsUpTo(Pieces, MaxPieces), d \in {"absent", "throws", "present"}}

ParserInputs ==
  {[fn |-> "json", x |-> j] : j \in JsonInputs}
  \cup {[fn |-> "html", x |-> h] : h \in HtmlInputs}

CallParseJson ==
  /\ pc = "call"
  /\ arg.fn = "json"
  /\ Return(parseInstagramRelationshipJson(arg.x))

CallParseHtml ==
  /\ pc = "call"
  /\ arg.fn = "html"
  /\ Return(parseInstagramRelationshipHtml(arg.x.text, arg.x.dom, arg.x.anchors))

CallParseHtmlInExport ==
  /\ pc = "call"
  /\ arg.fn = "html"
  /\ Return(parseInstagramRelationshipHtmlInExport(arg.x.text, arg.x.dom,
                                                    arg.x.anchors))

\* the merge: handleFiles, called once in the App's initial state on a batch of
\* at most MaxMerge files, and the steps that follow its reads
MergeStart ==
  \E expected \in Categories, files \in Batches(LoadFiles, MaxMerge) \ {<<>>} :
    started = 0 /\ HandleFiles(expected, files)

\* the App before handleFiles is called, in any of the host locales
InitMerge ==
  /\ InitApp
  /\ arg = <<>>
  /\ ret = <<>>
  /\ pc = "app"

InitParsers == InitCall(ParserInputs) \/ InitMerge

NextParsers ==
  CallParseJson \/ CallParseHtml \/ CallParseHtmlInExport \/ MergeStart
  \/ Resume(1)

SpecParsers == InitParsers /\ [][NextParsers]_vars

\* extractUsernameFromHref --------------------------------------------------
MaxSegLen == 3

SegChars == {"b", "C", "_", "-"}

\* a path segment longer than the username pattern allows
LongSegment == [i \in 1..(UserMax + 1) |-> "b"]

\* an href given by its parts: what precedes the path, whether the path starts
\* with _u/, the segment and what follows it
HrefInputs ==
  [host : {P_https, P_https_www, L_http \o L_scheme \o <<"e","x",".","o","r","g","/">>},
   u : BOOLEAN,
   seg : SeqsUpTo(SegChars, MaxSegLen) \cup {LongSegment},
   tail : {<<>>, <<"/">>, <<"/","x">>}]

HrefText(h) ==
  h.host \o (IF h.u THEN L_u ELSE <<>>) \o h.seg \o h.tail

CallHref == Return(extractUsernameFromHref(HrefText(arg)))

SpecHref == InitCall(HrefInputs) /\ [][CallHref]_vars

\* parseInstagramRelationshipJson on objects of several fields ----------------
MaxFields == 3

K_relationships_a == K_relationships_ \o <<"a">>

FieldKeys ==
  {K_relationships_followers, K_relationships_following, K_relationships_a,
   K_relationships_x}

FieldValues ==
  {JStr(S_Ann), JArr(<<>>), JArr(<<ValueEntry(S_Ann)>>),
   JArr(<<ValueEntry(S_Bob), ValueEntry(S_at_b_1)>>), JArr(<<ValueEntry(<<"@">>)>>)}

\* the object whose entries, in Object.entries order, have the keys ks and the
\* values vs
ObjectOf(ks, vs) == JObj([i \in 1..Len(ks) |-> <<ks[i], vs[i]>>])

\* the objects of at most MaxFields fields
FieldInputs ==
  UNION {{ObjectOf(ks, vs) : vs \in [1..Len(ks) -> FieldValues]} :
           ks \in Batches(FieldKeys, MaxFields)}

CallParseFields == Return(parseInstagramRelationshipJson(arg))

SpecFields == InitCall(FieldInputs) /\ [][CallParseFields]_vars

(***************************************************************************)
(* Properties                                                              *)
(***************************************************************************)
\* the list the App holds for a category
Loaded(c) == IF c = "followers" THEN followers ELSE following

\* the positions of a whose element does not occur in b
KeptPositions(a, b) == {i \in 1..Len(a) : \A j \in 1..Len(b) : b[j] # a[i]}

\* how many positions of K are at most i
Rank(K, i) == Cardinality({k \in K : k <= i})

\* ret is a taken at the positions of K, in order
IsSelection(result, a, K) ==
  /\ Len(result) = Cardinality(K)
  /\ \A i \in K : result[Rank(K, i)] = a[i]

\* C1: the diff of (following, followers) is exactly the subsequence of
\* `following` made of the elements that do not occur in `followers`: nothing
\* else is in it, none of them is missing, and the order of `following` is kept.
DiffIsTheSubsequenceOfAbsent ==
  pc = "done" =>
    IsSelection(ret, arg.following, KeptPositions(arg.following, arg.followers))

\* a diff that keeps two of three followed accounts and drops the one that
\* follows back
DiffDropsOneOfThree ==
  /\ pc = "done"
  /\ Len(arg.following) = 3
  /\ Len(ret) = 2
  /\ ret[1] # ret[2]
  /\ arg.followers # <<>>

\* C2: after any sequence of loads and resets a diff is available only when
\* both categories hold a successfully loaded, non-empty list; a category whose
\* last load failed has no list, so no diff is available until it is loaded
\* successfully again.
DiffOnlyWhenBothLoaded ==
  /\ ~notFollowingBack.isNull =>
       \A c \in Categories :
         /\ ~Loaded(c).isNull
         /\ Len(Loaded(c).v) > 0
         /\ outcome[c] = "ok"
  /\ \A c \in Categories :
       outcome[c] \in {"failed", "cleared", "none"} =>
         Loaded(c).isNull /\ notFollowingBack.isNull

\* a diff was available, then the load of `following` failed
DiffBlockedAfterFailure ==
  /\ outcome["followers"] = "ok"
  /\ outcome["following"] = "failed"
  /\ started = 3
  /\ calls = <<>>
  /\ ~followers.isNull
  /\ ~error.isNull

\* the only load of the run has returned
LoadReturned == pc = "app" /\ started = 1 /\ calls = <<>>

\* what one file of a batch adds to an empty merge
Alone(file, expected) == FileStep(file, expected, Acc(<<>>, <<>>), AppDom)

\* no file of the batch yields an identifier
MergedEmpty(files, expected) ==
  \A i \in 1..Len(files) : Alone(files[i], expected).combined = <<>>

\* the failure signal: the error is set and the category has no list
FailureSignal(expected) == ~error.isNull /\ Loaded(expected).isNull

\* C3 as stated: for every batch of zero or more files the failure signal is
\* raised if and only if the merged identifier set is empty.
FailureIffMergedEmpty ==
  LoadReturned =>
    (FailureSignal(last.expected) <=> MergedEmpty(last.files, last.expected))

\* a file routed to JSON.parse whose text does not decode
IsUndecodable(file) ==
  /\ ~TextRejects(file)
  /\ ~(looksLikeHtml(FileText(file)) \/ isHtmlByName(file.name))
  /\ JsonParseThrows(file)

\* the positions of the warnings that name a file
Naming(ws, name) == {k \in 1..Len(ws) : ws[k][2] = name}

\* the batch `files` without its i-th file, merged
WithoutFile(files, i, expected) ==
  AggregateOf(Loop(Without(files, i), 1, expected, Acc(<<>>, <<>>), AppDom))

\* C4: in a batch, a structured-data file whose text fails to decode as JSON
\* adds exactly one warning, which names it, contributes no identifier and does
\* not stop the batch: the merged identifiers and the other warnings are those
\* of the other files, wherever the failing file stands in the batch.
DecodeFailureIsLocal ==
  LoadReturned =>
    \A i \in 1..Len(last.files) :
      IsUndecodable(last.files[i]) =>
        /\ Cardinality(Naming(last.warnings, last.files[i].name)) = 1
        /\ W_decodeFail(last.files[i].name) \in Range(last.warnings)
        /\ Alone(last.files[i], last.expected).combined = <<>>
        /\ last.usernames = WithoutFile(last.files, i, last.expected).usernames
        /\ IsSelection(WithoutFile(last.files, i, last.expected).warnings,
                       last.warnings,
                       (1..Len(last.warnings))
                         \ Naming(last.warnings, last.files[i].name))

\* an undecodable file between two files that yield identifiers
UndecodableInTheMiddle ==
  /\ LoadReturned
  /\ Len(last.files) = 3
  /\ IsUndecodable(last.files[2])
  /\ Alone(last.files[1], last.expected).combined # <<>>
  /\ Alone(last.files[3], last.expected).combined # <<>>
  /\ error.isNull

\* a file routed to the Structured-Data Parser
IsStructured(file) ==
  /\ ~TextRejects(file)
  /\ ~(looksLikeHtml(FileText(file)) \/ isHtmlByName(file.name))
  /\ ~JsonParseThrows(file)

\* the parser detects a known kind that is not the expected one
IsMismatched(file, expected) ==
  /\ parseInstagramRelationshipJson(file.body.v).kind \in Categories
  /\ parseInstagramRelationshipJson(file.body.v).kind # expected

\* the mismatch warning is given and the file's identifiers are merged
MismatchWarned(file, expected) ==
  /\ W_mismatch(file.name, parseInstagramRelationshipJson(file.body.v).kind,
                expected) \in Range(last.warnings)
  /\ Range(parseInstagramRelationshipJson(file.body.v).usernames)
       \subseteq Range(last.usernames)

\* C5 as stated: every structured-data file whose detected kind is known and
\* differs from the expected category gets the mismatch warning, a file from
\* which no identifier was extracted included.
MismatchAlwaysWarned ==
  LoadReturned =>
    \A i \in 1..Len(last.files) :
      IsStructured(last.files[i]) /\ IsMismatched(last.files[i], last.expected)
        => MismatchWarned(last.files[i], last.expected)

\* the orders in which the files of a batch can be given
Orders(files) ==
  {q \in Batches(Range(files), Len(files)) : Len(q) = Len(files)}

\* C6 as stated: the merged identifiers depend on the set of files of the batch
\* only: for every permutation of the batch handleFiles gives the same sorted
\* identifiers and the same failure flag.
MergeIgnoresFileOrder ==
  LoadReturned /\ Len(last.files) > 0 =>
    \A q \in Orders(last.files) :
      /\ Aggregate(q, last.expected, AppDom).usernames = last.usernames
      /\ Aggregate(q, last.expected, AppDom).failed = ~last.error.isNull
      /\ Aggregate(q, last.expected, AppDom).failed = Loaded(last.expected).isNull

\* us holds no empty string and no string twice
WithoutDuplicates(us) ==
  \A i \in 1..Len(us) :
    us[i] # <<>> /\ \A j \in (i + 1)..Len(us) : us[i] # us[j]

\* us is sorted ascending by value: the order of two of its identifiers is that
\* of their values, so the sort gives the two in that order when it is handed
\* them in the other one.  (Whatever order of the values is meant, two distinct
\* values are ascending in one arrangement only.)
AscendingByValue(us) ==
  \A i \in 1..Len(us) :
    \A j \in (i + 1)..Len(us) : sortLocale(<<us[j], us[i]>>) = <<us[i], us[j]>>

\* C7 as stated: the identifiers returned by the Structured-Data Parser and by
\* the Markup Parser, and the merged identifiers handleFiles gives to the
\* category's list, hold no two equal values and no empty string, and are
\* sorted ascending by value.
IdentifiersAscendingWithoutDuplicates ==
  /\ pc = "done" =>
       WithoutDuplicates(ret.usernames) /\ AscendingByValue(ret.usernames)
  /\ WithoutDuplicates(last.usernames) /\ AscendingByValue(last.usernames)
  /\ \A c \in Categories :
       ~Loaded(c).isNull =>
         WithoutDuplicates(Loaded(c).v) /\ AscendingByValue(Loaded(c).v)

\* C8 as stated: normalizeUsername is idempotent.
NormalizeIsIdempotent == pc = "done" => normalizeUsername(ret) = ret

\* a string of the Identifier grammar [A-Za-z0-9._]{1,30} in lowercased form
IsNormalizedIdentifier(u) ==
  /\ Len(u) \in 1..UserMax
  /\ \A i \in 1..Len(u) : IsUserChar(u[i]) /\ u[i] \notin Uppers

\* C9 as stated: every identifier the Structured-Data Parser returns matches the
\* Identifier grammar in lowercased form.
ParsedIdentifiersMatchGrammar ==
  pc = "done" /\ arg.fn = "json" =>
    \A i \in 1..Len(ret.usernames) : IsNormalizedIdentifier(ret.usernames[i])

\* the three rules in the order the claim gives them, the title rule applying to
\* an entry with or without a list of records
RulesInOrder(entry, sld) ==
  OrElse(IF isArray(sld) THEN FirstValue(sld.v) ELSE JNull,
         OrElse(toStringOrNull(Get(entry, K_title)),
                IF isArray(sld) THEN FirstHref(sld.v) ELSE JNull))

\* C10 as stated: the Entry Extractor returns the first non-empty `value`,
\* otherwise the entry's non-empty `title` whether or not the entry has a
\* list-of-records field, otherwise the identifier of the first matching `href`.
ExtractorAppliesRulesInOrder ==
  pc = "done" /\ isRecord(arg) =>
    ret = RulesInOrder(arg, Get(arg, K_string_list_data))

\* a string of the Identifier grammar [A-Za-z0-9._]{1,30}
IsIdentifier(u) ==
  /\ Len(u) \in 1..UserMax
  /\ \A i \in 1..Len(u) : IsUserChar(u[i])

\* the href is a profile URL of instagram.com
IsProfileUrl(h) == endsWith(h.host, L_instagram_com)

\* C11 as stated: the identifier taken from an href is the whole path segment
\* after /_u/ when there is one, otherwise the first path segment after the
\* host, if that segment satisfies the Identifier grammar; it is never a proper
\* prefix of a longer segment, and a segment outside the grammar yields nothing.
HrefIdentifierIsWholeSegment ==
  pc = "done" /\ IsProfileUrl(arg) =>
    ret = IF IsIdentifier(arg.seg) THEN JStr(arg.seg) ELSE JNull

\* the records of an entry: the items of its `string_list_data` when that is a list
RecordsOf(entry) ==
  IF entry.t = "obj" /\ Get(entry, K_string_list_data).t = "arr"
  THEN Get(entry, K_string_list_data).v
  ELSE <<>>

\* a value that is a non-empty string
IsNonEmptyString(x) == x.t = "str" /\ x.v # <<>>

\* the entry offers a non-empty `value`, a non-empty `title` or a matching `href`
OffersValue(entry) ==
  \E i \in 1..Len(RecordsOf(entry)) :
    IsNonEmptyString(Get(RecordsOf(entry)[i], K_value))

OffersTitle(entry) == IsNonEmptyString(Get(entry, K_title))

OffersHref(entry) ==
  \E i \in 1..Len(RecordsOf(entry)) :
    /\ IsNonEmptyString(Get(RecordsOf(entry)[i], K_href))
    /\ extractUsernameFromHref(Get(RecordsOf(entry)[i], K_href).v).t = "str"

\* C12: the Entry Extractor is total: for an entry of any shape it returns none
\* or a non-empty string, and it returns none for every entry that offers no
\* non-empty `value`, no non-empty `title` and no matching `href`.
ExtractorIsTotal ==
  pc = "done" =>
    /\ ret = JNull \/ IsNonEmptyString(ret)
    /\ ~OffersValue(arg) /\ ~OffersTitle(arg) /\ ~OffersHref(arg) => ret = JNull

\* an entry whose title is a number and whose records are a number and a record
\* with an href that names no profile
MalformedEntryYieldsNone ==
  /\ pc = "done"
  /\ Len(RecordsOf(arg)) = 2
  /\ RecordsOf(arg)[1] = JNum(5)
  /\ RecordsOf(arg)[2] = JObj(<< <<K_href, JStr(H_none)>> >>)
  /\ Get(arg, K_title) = JNum(7)
  /\ ret = JNull

\* the object that holds only the field `key` of json
OnlyField(json, key) == JObj(<< <<key, Get(json, key)>> >>)

\* C13: parseInstagramRelationshipJson reports kind `followers` whenever the
\* object has an array-valued relationships_followers field, whatever other
\* fields it has, and its result is then that of the object holding this field
\* alone; it reports kind `following` exactly when relationships_followers is
\* absent or no array and relationships_following is an array, the result then
\* being that of the object holding relationships_following alone.
FollowersFieldTakesPrecedence ==
  pc = "done" =>
    /\ ret.kind = "followers" <=> Get(arg, K_relationships_followers).t = "arr"
    /\ ret.kind = "following" <=>
         /\ Get(arg, K_relationships_followers).t # "arr"
         /\ Get(arg, K_relationships_following).t = "arr"
    /\ ret.kind = "followers" =>
         ret = parseInstagramRelationshipJson(OnlyField(arg, K_relationships_followers))
    /\ ret.kind = "following" =>
         ret = parseInstagramRelationshipJson(OnlyField(arg, K_relationships_following))

\* an object with relationships_x, relationships_following and
\* relationships_followers, in that order, all arrays that yield identifiers
FollowersChosenAmongThree ==
  /\ pc = "done"
  /\ Len(arg.v) = 3
  /\ arg.v[1][1] = K_relationships_x
  /\ arg.v[2][1] = K_relationships_following
  /\ arg.v[3][1] = K_relationships_followers
  /\ arg.v[1][2] = JArr(<<ValueEntry(S_Ann)>>)
  /\ arg.v[2][2] = JArr(<<ValueEntry(S_Ann)>>)
  /\ arg.v[3][2] = JArr(<<ValueEntry(S_Bob), ValueEntry(S_at_b_1)>>)
  /\ ret.kind = "followers"
  /\ Len(ret.usernames) = 2

\* the object has neither standard field as an array
HasNoStandardField(json) ==
  /\ json.t = "obj"
  /\ Get(json, K_relationships_followers).t # "arr"
  /\ Get(json, K_relationships_following).t # "arr"

\* C14 as stated: for an object with neither standard field, the chosen
\* relationships_* field, the identifiers and the warning naming the field are
\* the same for every order in which the fields appear in the object.
OtherFieldChoiceIgnoresFieldOrder ==
  pc = "done" /\ HasNoStandardField(arg) =>
    \A q \in Orders(arg.v) : parseInstagramRelationshipJson(JObj(q)) = ret

\* the extraction-failure warning that names a detected kind
ExtractionFailure(kind) ==
  IF kind = "followers" THEN W_followersEmpty ELSE W_followingEmpty

\* C15 as stated: when the chosen array is relationships_followers or
\* relationships_following, the warnings are empty if and only if the
\* identifiers are non-empty: an array that yields no identifier carries the
\* extraction-failure warning naming the kind, and one that yields an
\* identifier carries no warning.
StandardFieldWarnsIffNoIdentifier ==
  pc = "done" /\ ret.kind \in Categories =>
    IF ret.usernames = <<>>
    THEN ret.warnings = <<ExtractionFailure(ret.kind)>>
    ELSE ret.warnings = <<>>

\* the identifiers a relationships_* array yields
YieldOf(field) == uniqueSorted(ExtractAll(field.v))

\* json is no array, and no object with a standard array field or with a
\* relationships_* array that yields an identifier
IsUnusable(json) ==
  /\ json.t # "arr"
  /\ json.t = "obj" =>
       /\ HasNoStandardField(json)
       /\ \A i \in 1..Len(json.v) :
            startsWith(json.v[i][1], K_relationships_) /\ json.v[i][2].t = "arr"
              => YieldOf(json.v[i][2]) = <<>>

\* C16 as stated: for every decoded value that is not an array and not an
\* object with a usable relationships_* array, parseInstagramRelationshipJson
\* returns kind `unknown`, no identifier and a warning list containing the
\* "unrecognized format" notice.
UnusableInputIsUnrecognized ==
  pc = "done" /\ arg.fn = "json" /\ IsUnusable(arg.x) =>
    /\ ret.kind = "unknown"
    /\ ret.usernames = <<>>
    /\ W_unrecognized \in Range(ret.warnings)

\* C17: for every markup text both copies of parseInstagramRelationshipHtml
\* return kind `unknown`, the fixed "imported as HTML" notice as first warning,
\* and exactly one more warning, the suggestion to use JSON, if and only if the
\* returned identifiers are empty.
MarkupResultShape ==
  pc = "done" /\ arg.fn = "html" =>
    /\ ret.kind = "unknown"
    /\ Len(ret.warnings) = IF ret.usernames = <<>> THEN 2 ELSE 1
    /\ ret.warnings[1] = W_html
    /\ ret.usernames = <<>> => ret.warnings[2] \in {W_htmlEmpty, W_htmlEmptyInExport}

\* a "value" fragment whose string is outside the grammar is the only candidate
OnlyImplausibleCandidate ==
  /\ pc = "done"
  /\ arg.fn = "html"
  /\ arg.x.text = <<" ">> \o L_value \o <<":"," ","\"","c"," ","y","\"">>
  /\ ret.usernames = <<>>
  /\ Len(ret.warnings) = 2

\* the candidates of the three text passes, as a set
TextPassCandidates(text) ==
  Range(MatchAll("urlRe", text, 1)) \cup Range(MatchAll("atRe", text, 1))
  \cup Range(MatchAll("valueRe", text, 1))

\* the orders in which the three text passes can run, and the candidates they
\* push when they run in one of them
PassOrders == Orders(<<"urlRe", "atRe", "valueRe">>)

TextCandidates(order, text) ==
  MatchAll(order[1], text, 1) \o MatchAll(order[2], text, 1)
  \o MatchAll(order[3], text, 1)

\* C18 as stated: when DOMParser is absent or throws, the identifiers returned
\* by parseInstagramRelationshipHtml are exactly the normalized candidates of
\* the three text passes that fully match the Identifier grammar, without
\* duplicates and sorted; the sequence returned is the same in whatever order
\* the passes run; and no warning is added for the missing capability.
TextPassesOnlyWithoutDom ==
  pc = "done" /\ arg.fn = "html" /\ arg.x.dom \in {"absent", "throws"} =>
    /\ Range(ret.usernames)
         = {toLowerCase(c) : c \in {d \in TextPassCandidates(arg.x.text) :
                                      IsIdentifier(d)}}
    /\ WithoutDuplicates(ret.usernames)
    /\ \A order \in PassOrders :
         ret.usernames
           = uniqueSorted(SelectSeq(TextCandidates(order, arg.x.text), IsPlausible))
    /\ ret.warnings \in {<<W_html>>, <<W_html, W_htmlEmpty>>,
                         <<W_html, W_htmlEmptyInExport>>}
    /\ Len(ret.warnings) = 1 <=> ret.usernames # <<>>

\* C19 as stated: when an invocation of handleFiles returns after a later
\* invocation for the same category has returned, the category's list stays
\* the result of the later invocation: the earlier one never overwrites it.
LaterInvocationWins ==
  [][\A i \in 1..Len(calls) :
       (/\ calls' = Without(calls, i)
        /\ calls[i].id < last.id
        /\ calls[i].expected = last.expected
        /\ Loaded(last.expected) = last.list)
         => Loaded(last.expected)' = last.list]_vars

\* a load of category c is under way
IsLoading(c) == \E i \in 1..Len(calls) : calls[i].expected = c

\* C20 as stated: whenever the most recent load of a category failed, and that
\* category is not being loaded again, the error is non-null, also after the
\* other category has since been loaded.
FailureStaysSurfaced ==
  \A c \in Categories :
    outcome[c] = "failed" /\ ~IsLoading(c) => ~error.isNull

====
